---- MODULE Spec2Model ----
(***************************************************************************)
(* A model of AutoPMv6's gateway rollup and readiness engine: the status   *)
(* classifier (utils.get_status), the bottom-up rollup                     *)
(* (utils.calculate_rollup), the SQLite persistence (utils.load_data,      *)
(* utils.save_data) and the readiness score                                *)
(* (utils.calculate_project_readiness), driven by the handlers of app.py.  *)
(*                                                                         *)
(* Python strings are sequences of one-character strings, so that parsing, *)
(* formatting and the lexicographic comparison of date strings are         *)
(* computed and not assumed.  Python's None is the token NoneV.  A dict is *)
(* a function whose DOMAIN is its key set.                                 *)
(***************************************************************************)
EXTENDS Integers, Sequences, FiniteSets, TLC

VARIABLES
    st_plan,      \* get_status: the plan argument
    st_actual,    \* get_status: the actual argument
    st_result,    \* get_status: the value returned, NotCalled before the call
    rl_projects,  \* calculate_rollup: the list it updates in place
    rl_prev,      \* calculate_rollup: the list as it was when the last call began
    rl_calls,     \* calculate_rollup: the calls made on the list
    db,           \* project_tracker.db: the committed rows of its four tables
    projects,     \* app.py: the list `projects` of the last script run
    view,         \* st.session_state.view
    selected_types, \* st.session_state.selected_types
    dialog,       \* the dialog that is open: "none", "create" or "upload"
    rerun,        \* st.rerun() was called and the next run has not begun
    clock,        \* datetime.now(), in seconds, at the last id drawn
    events,       \* the edits made so far
    sv,           \* the last save_data call: the file before it, the list, the outcome
    ld_fresh,     \* the last script run ended without a save: projects = load_data()
    rd_project_id, \* calculate_project_readiness: the project_id argument
    rd_result,    \* calculate_project_readiness: the value returned, NotCalled before
    ds_projects,  \* the Dashboard: filtered_projects of the script run
    ds_pc,        \* the Dashboard: the line the script run has reached
    ds_headlines, \* calculate_dashboard_stats: p_status of each project, in list order
    ds_stats,     \* calculate_dashboard_stats: the dict returned
    ds_rate,      \* the Dashboard: the counters and adherence_rate after line 356
    pd_csv,       \* populate_deliverables: the checklist file, <<>> when there is none
    pd_type,      \* populate_deliverables: the project_type argument
    pd_result,    \* populate_deliverables: the list returned
    pd_called,    \* populate_deliverables has returned
    cs_pc,        \* two sessions: where each one is, "start", "loaded", "edited", "saved"
    cs_loaded,    \* two sessions: the saves committed when the session loaded, and whether the load succeeded
    cs_lists,     \* two sessions: the list `projects` of each script run
    cs_edits,     \* two sessions: the edit each one made, "none" before
    cs_results,   \* two sessions: the value its save_data call returned, NotCalled before
    cs_order,     \* two sessions: the sessions in the order of their commits
    up_file,      \* the upload dialog: the file chosen
    up_prev,      \* process_csv_upload: the list passed to the last call
    up_out,       \* process_csv_upload: the list returned by the last call
    up_msg,       \* process_csv_upload: the message returned, NotCalled before
    up_calls      \* the upload dialog: the times "Process Upload" was pressed

statusVars == <<st_plan, st_actual, st_result>>

rollupVars == <<rl_projects, rl_prev, rl_calls>>

appVars == <<db, projects, view, selected_types, dialog, rerun, clock, events, sv, ld_fresh>>

readinessVars == <<rd_project_id, rd_result>>

dashboardVars == <<ds_projects, ds_pc, ds_headlines, ds_stats, ds_rate>>

populateVars == <<pd_csv, pd_type, pd_result, pd_called>>

sessionVars == <<cs_pc, cs_loaded, cs_lists, cs_edits, cs_results, cs_order>>

uploadVars == <<up_file, up_prev, up_out, up_msg, up_calls>>

vars == <<statusVars, rollupVars, appVars, readinessVars, dashboardVars, populateVars, sessionVars, uploadVars>>

\* ------------------------------------------------------------------------
\* Strings
\* ------------------------------------------------------------------------

\* Python's None (also what dict.get returns for an absent key).
NoneV == <<"None">>

\* The empty string ''.
EmptyStr == <<>>

\* Python truthiness of a str-or-None value: `if v:`.
Truthy(v) == v # NoneV /\ v # EmptyStr

Digits == {"0", "1", "2", "3", "4", "5", "6", "7", "8", "9"}

NonZeroDigits == Digits \ {"0"}

\* int() of one decimal digit.
DigitVal(c) ==
    CASE c = "0" -> 0 [] c = "1" -> 1 [] c = "2" -> 2 [] c = "3" -> 3
      [] c = "4" -> 4 [] c = "5" -> 5 [] c = "6" -> 6 [] c = "7" -> 7
      [] c = "8" -> 8 [] c = "9" -> 9

\* The decimal digit of n in 0..9.
DigitChar(n) == <<"0", "1", "2", "3", "4", "5", "6", "7", "8", "9">>[n + 1]

\* ord() of the characters the model's strings are made of.
Code(c) ==
    CASE c = " " -> 32 [] c = "-" -> 45 [] c = "/" -> 47
      [] c \in Digits -> 48 + DigitVal(c)
      [] c = "a" -> 97 [] c = "n" -> 110 [] c = "x" -> 120

\* Python's `a > b` on two str values: the first differing character decides,
\* and a proper prefix is the smaller.
RECURSIVE StrGT(_, _)
StrGT(a, b) ==
    IF a = <<>> THEN FALSE
    ELSE IF b = <<>> THEN TRUE
    ELSE IF Head(a) = Head(b) THEN StrGT(Tail(a), Tail(b))
    ELSE Code(Head(a)) > Code(Head(b))

\* ------------------------------------------------------------------------
\* Calendar dates: datetime.strptime(s, "%Y-%m-%d"), date.toordinal, str(date)
\* ------------------------------------------------------------------------

IsLeap(y) == (y % 4 = 0) /\ ((y % 100 # 0) \/ (y % 400 = 0))

DaysInMonth(y, m) ==
    IF m = 2 THEN (IF IsLeap(y) THEN 29 ELSE 28)
    ELSE IF m \in {4, 6, 9, 11} THEN 30 ELSE 31

\* Days in the months of year y before month m.
RECURSIVE DaysBeforeMonth(_, _)
DaysBeforeMonth(y, m) ==
    IF m <= 1 THEN 0 ELSE DaysBeforeMonth(y, m - 1) + DaysInMonth(y, m - 1)

\* date(y, m, d).toordinal(): the proleptic Gregorian day number, 0001-01-01 = 1.
toordinal(y, m, d) ==
    LET py == y - 1
    IN  py * 365 + (py \div 4) - (py \div 100) + (py \div 400)
          + DaysBeforeMonth(y, m) + d

\* The regular expression strptime compiles for %m: 1[0-2]|0[1-9]|[1-9].
MatchMonth(t) ==
    \/ Len(t) = 2 /\ t[1] = "1" /\ t[2] \in {"0", "1", "2"}
    \/ Len(t) = 2 /\ t[1] = "0" /\ t[2] \in NonZeroDigits
    \/ Len(t) = 1 /\ t[1] \in NonZeroDigits

\* The regular expression for %d: 3[0-1]|[1-2]\d|0[1-9]|[1-9]| [1-9].
MatchDay(t) ==
    \/ Len(t) = 2 /\ t[1] = "3" /\ t[2] \in {"0", "1"}
    \/ Len(t) = 2 /\ t[1] \in {"1", "2"} /\ t[2] \in Digits
    \/ Len(t) = 2 /\ t[1] = "0" /\ t[2] \in NonZeroDigits
    \/ Len(t) = 1 /\ t[1] \in NonZeroDigits
    \/ Len(t) = 2 /\ t[1] = " " /\ t[2] \in NonZeroDigits

\* int() of a matched group of one or two characters (int(' 5') is 5).
RECURSIVE IntOf(_)
IntOf(t) ==
    IF t = <<>> THEN 0
    ELSE IF t[Len(t)] = " " THEN 0
    ELSE 10 * IntOf(SubSeq(t, 1, Len(t) - 1)) + DigitVal(t[Len(t)])

\* datetime.strptime(s, "%Y-%m-%d") on a str: [ok |-> FALSE] stands for the
\* ValueError (no match, unconverted data, or a day/year out of range).
strptime(s) ==
    LET bad == [ok |-> FALSE, y |-> 0, m |-> 0, d |-> 0]
    IN  IF Len(s) < 8 THEN bad
        ELSE IF ~(\A i \in 1..4 : s[i] \in Digits) \/ s[5] # "-" THEN bad
        ELSE LET mlen == IF s[7] = "-" THEN 1 ELSE 2
                 mm   == SubSeq(s, 6, 5 + mlen)
                 dd   == SubSeq(s, 7 + mlen, Len(s))
             IN  IF Len(s) < 7 + mlen \/ s[6 + mlen] # "-" THEN bad
                 ELSE IF ~MatchMonth(mm) \/ ~MatchDay(dd) THEN bad
                 ELSE LET y == IntOf(SubSeq(s, 1, 4))
                          m == IntOf(mm)
                          d == IntOf(dd)
                      IN  IF y < 1 \/ d > DaysInMonth(y, m) THEN bad
                          ELSE [ok |-> TRUE, y |-> y, m |-> m, d |-> d]

\* Two decimal digits of n in 0..99 ("%02d").
Pad2(n) == <<DigitChar(n \div 10), DigitChar(n % 10)>>

\* Four decimal digits of n in 0..9999 ("%04d").
Pad4(n) == <<DigitChar(n \div 1000), DigitChar((n \div 100) % 10),
             DigitChar((n \div 10) % 10), DigitChar(n % 10)>>

\* str(datetime.date(y, m, d)): the canonical YYYY-MM-DD text the date widgets
\* of app.py store.
isoformat(y, m, d) == Pad4(y) \o <<"-">> \o Pad2(m) \o <<"-">> \o Pad2(d)

\* ------------------------------------------------------------------------
\* utils.get_status
\* ------------------------------------------------------------------------

\* The mutant of get_status: the at-risk band ends at 29 days.
get_status_offbyone(plan, actual) ==
    IF ~Truthy(plan) \/ ~Truthy(actual) THEN "grey"
    ELSE LET p == strptime(plan)
             a == strptime(actual)
         IN  IF ~p.ok \/ ~a.ok THEN "grey"
             ELSE LET diff == toordinal(a.y, a.m, a.d) - toordinal(p.y, p.m, p.d)
                  IN  IF diff <= 0 THEN "green"
                      ELSE IF diff < 30 THEN "yellow"
                      ELSE "red"

get_status(plan, actual) ==
    IF ~Truthy(plan) \/ ~Truthy(actual) THEN "grey"
    ELSE LET p == strptime(plan)
             a == strptime(actual)
         IN  IF ~p.ok \/ ~a.ok THEN "grey"
             ELSE LET diff == toordinal(a.y, a.m, a.d) - toordinal(p.y, p.m, p.d)
                  IN  IF diff <= 0 THEN "green"
                      ELSE IF diff <= 30 THEN "yellow"
                      ELSE "red"

\* ------------------------------------------------------------------------
\* The hierarchy: projects, modules, sub-modules and their gateway dicts
\* ------------------------------------------------------------------------

\* The gateway ids in the order every loop of the code walks them.
GW == <<"D0", "D1", "D2", "D3", "D4">>

GWSet == {GW[i] : i \in 1..Len(GW)}

\* d[k] = v on a dict.
SetKey(d, k, v) == [x \in (DOMAIN d) \cup {k} |-> IF x = k THEN v ELSE d[x]]

\* d.get(k): None for an absent key.
Get(d, k) == IF k \in DOMAIN d THEN d[k] ELSE NoneV

\* d.get(k, ''): '' for an absent key.
GetOrEmpty(d, k) == IF k \in DOMAIN d THEN d[k] ELSE EmptyStr

\* e['gateways'].get(gw, {}).get(k)
GwGet(e, gw, k) == IF gw \in DOMAIN e.gateways THEN Get(e.gateways[gw], k) ELSE NoneV

\* m.get('sub_modules'), with None read as the empty list it is tested as.
SubsOf(m) == IF "sub_modules" \in DOMAIN m THEN m.sub_modules ELSE <<>>

\* ------------------------------------------------------------------------
\* utils.calculate_rollup
\* ------------------------------------------------------------------------

\* The loop over the children of one entity: max_date starts as None and takes
\* every truthy actual that is greater, as a string, than the one it holds.
RECURSIVE MaxActual(_, _, _)
MaxActual(ents, gw, max_date) ==
    IF ents = <<>> THEN max_date
    ELSE LET act == GwGet(Head(ents), gw, "a")
             nxt == IF Truthy(act) /\ (max_date = NoneV \/ StrGT(act, max_date))
                    THEN act ELSE max_date
         IN  MaxActual(Tail(ents), gw, nxt)

\* The mutant of RollupModuleGw: a module whose sub-modules hold no actual keeps
\* the one it has.
RollupModuleGw_keep(m, gw) ==
    LET max_date == MaxActual(m.sub_modules, gw, NoneV)
    IN  IF Truthy(max_date)
        THEN LET gws == IF gw \notin DOMAIN m.gateways
                        THEN SetKey(m.gateways, gw, [p |-> EmptyStr, a |-> EmptyStr, ecn |-> EmptyStr])
                        ELSE m.gateways
             IN  [m EXCEPT !.gateways = SetKey(gws, gw, SetKey(gws[gw], "a", max_date))]
        ELSE m

\* Pass 1 for one module that has sub-modules and one gateway.
RollupModuleGw(m, gw) ==
    LET max_date == MaxActual(m.sub_modules, gw, NoneV)
    IN  IF Truthy(max_date)
        THEN LET gws == IF gw \notin DOMAIN m.gateways
                        THEN SetKey(m.gateways, gw, [p |-> EmptyStr, a |-> EmptyStr, ecn |-> EmptyStr])
                        ELSE m.gateways
             IN  [m EXCEPT !.gateways = SetKey(gws, gw, SetKey(gws[gw], "a", max_date))]
        ELSE IF gw \in DOMAIN m.gateways
        THEN [m EXCEPT !.gateways = SetKey(m.gateways, gw, SetKey(m.gateways[gw], "a", EmptyStr))]
        ELSE m

\* `for gw in ['D0', ..., 'D4']` of pass 1, from the i-th gateway on.
RECURSIVE RollupModuleFrom(_, _)
RollupModuleFrom(m, i) ==
    IF i > Len(GW) THEN m ELSE RollupModuleFrom(RollupModuleGw(m, GW[i]), i + 1)

\* The mutant of RollupModule: a module without sub-modules has its actuals
\* cleared.
RollupModule_always(m) ==
    IF SubsOf(m) # <<>> THEN RollupModuleFrom(m, 1)
    ELSE [m EXCEPT !.gateways = [g \in DOMAIN @ |-> SetKey(@[g], "a", EmptyStr)]]

\* Pass 1 for one module: only if sub-modules exist.
RollupModule(m) == IF SubsOf(m) # <<>> THEN RollupModuleFrom(m, 1) ELSE m

\* Pass 2 for one project and one gateway.  Every gateway value of the model is
\* a dict, so the isinstance tests of lines 373 and 379 take their dict side.
RollupProjectGw(p, gw) ==
    LET max_date == MaxActual(p.modules, gw, NoneV)
    IN  IF Truthy(max_date)
        THEN LET gws == IF gw \notin DOMAIN p.gateways
                        THEN SetKey(p.gateways, gw, [p |-> EmptyStr, a |-> EmptyStr])
                        ELSE p.gateways
             IN  [p EXCEPT !.gateways = SetKey(gws, gw, SetKey(gws[gw], "a", max_date))]
        ELSE IF gw \in DOMAIN p.gateways
        THEN [p EXCEPT !.gateways = SetKey(p.gateways, gw, SetKey(p.gateways[gw], "a", EmptyStr))]
        ELSE p

\* `for gw in ['D0', ..., 'D4']` of pass 2, from the i-th gateway on.
RECURSIVE RollupProjectFrom(_, _)
RollupProjectFrom(p, i) ==
    IF i > Len(GW) THEN p ELSE RollupProjectFrom(RollupProjectGw(p, GW[i]), i + 1)

\* The mutant of RollupProject: pass 2 runs before pass 1.
RollupProject_swapped(p) ==
    LET p2 == IF "modules" \in DOMAIN p THEN RollupProjectFrom(p, 1) ELSE p
    IN  IF "modules" \in DOMAIN p2
        THEN [p2 EXCEPT !.modules = [i \in 1..Len(p2.modules) |-> RollupModule(p2.modules[i])]]
        ELSE p2

\* The body of `for p in projects`: pass 1 over the modules, then pass 2.
RollupProject(p) ==
    LET p1 == IF "modules" \in DOMAIN p
              THEN [p EXCEPT !.modules = [i \in 1..Len(p.modules) |-> RollupModule(p.modules[i])]]
              ELSE p
    IN  IF "modules" \in DOMAIN p1 THEN RollupProjectFrom(p1, 1) ELSE p1

\* calculate_rollup(projects): the list after the in-place update.
calculate_rollup(projs) == [i \in 1..Len(projs) |-> RollupProject(projs[i])]

\* ------------------------------------------------------------------------
\* The SQLite file: four tables, each a set of rows
\* ------------------------------------------------------------------------

\* No call has returned yet.
NotCalled == "not called"

\* SQL NULL in the integer column parent_module_id (no module has id 0).
NullId == 0

\* The tables after their creation, all of them empty.
EmptyDb == [projects |-> {}, modules |-> {}, gateways |-> {}, project_deliverables |-> {}]

\* The table whose CREATE TABLE statement declares `id INTEGER PRIMARY KEY`.
DeliverableKeyTables == {"project_deliverables"}

\* The tables of projects and of modules, created outside the sources: their
\* rows are identified by id as those of project_deliverables are.
EntityKeyTables == {"projects", "modules"}

PrimaryKeyTables == DeliverableKeyTables \cup EntityKeyTables

\* cursor.execute("DELETE FROM t")
DeleteFrom(t) == [op |-> "DELETE", table |-> t, row |-> <<>>]

\* cursor.execute("INSERT INTO t (...) VALUES (...)", r)
InsertInto(t, r) == [op |-> "INSERT", table |-> t, row |-> r]

\* The statement raises sqlite3.IntegrityError: its id is already in the table.
Raises(tx, stmt) ==
    /\ stmt.op = "INSERT"
    /\ stmt.table \in PrimaryKeyTables
    /\ \E r \in tx[stmt.table] : r.id = stmt.row.id

\* The mutant of Exec: a DELETE removes no row.
Exec_keep(tx, stmt) ==
    IF stmt.op = "DELETE" THEN tx
    ELSE [tx EXCEPT ![stmt.table] = @ \cup {stmt.row}]

\* The tables of the open transaction after the statement.
Exec(tx, stmt) ==
    IF stmt.op = "DELETE" THEN [tx EXCEPT ![stmt.table] = {}]
    ELSE [tx EXCEPT ![stmt.table] = @ \cup {stmt.row}]

\* The concatenation of a sequence of sequences.
RECURSIVE Concat(_)
Concat(seqs) == IF seqs = <<>> THEN <<>> ELSE Head(seqs) \o Concat(Tail(seqs))

\* The rows of a set in ascending id order, the order in which a table with an
\* integer primary key is scanned.
RECURSIVE SortById(_)
SortById(S) ==
    IF S = {} THEN <<>>
    ELSE LET r == CHOOSE x \in S : \A y \in S : x.id <= y.id
         IN  <<r>> \o SortById(S \ {r})

\* ------------------------------------------------------------------------
\* utils.save_data
\* ------------------------------------------------------------------------

\* `for gw, data in e.get('gateways', {}).items()`: one INSERT per key.  Project
\* rows are inserted without ecn, which stays NULL.
GatewayStmts(etype, e) ==
    LET Held(g) == g \in DOMAIN e.gateways
        keys == SelectSeq(GW, Held)
    IN  [i \in 1..Len(keys) |->
            InsertInto("gateways",
                [entity_type |-> etype, entity_id |-> e.id, gateway |-> keys[i],
                 plan_date |-> GetOrEmpty(e.gateways[keys[i]], "p"),
                 actual_date |-> GetOrEmpty(e.gateways[keys[i]], "a"),
                 ecn |-> IF etype = "project" THEN NoneV
                         ELSE GetOrEmpty(e.gateways[keys[i]], "ecn")])]

\* `for s in m['sub_modules']`: the sub-module row with its parent, then its
\* gateways.
SubModuleStmts(pid, mid, sm) ==
    <<InsertInto("modules",
         [id |-> sm.id, project_id |-> pid, name |-> sm.name, parent_module_id |-> mid])>>
      \o GatewayStmts("module", sm)

\* `for m in p['modules']`: the module row, its gateways, its sub-modules.
ModuleStmts(pid, m) ==
    <<InsertInto("modules",
         [id |-> m.id, project_id |-> pid, name |-> m.name, parent_module_id |-> NullId])>>
      \o GatewayStmts("module", m)
      \o (IF "sub_modules" \in DOMAIN m
          THEN Concat([j \in 1..Len(m.sub_modules) |->
                          SubModuleStmts(pid, m.id, m.sub_modules[j])])
          ELSE <<>>)

\* `for d in p['deliverables']`
DeliverableStmts(pid, ds) ==
    [j \in 1..Len(ds) |->
        InsertInto("project_deliverables",
            [id |-> ds[j].id, project_id |-> pid, gateway_stage |-> ds[j].gateway_stage,
             deliverable_name |-> ds[j].deliverable_name, status |-> ds[j].status,
             evidence_link |-> ds[j].evidence_link, remarks |-> ds[j].remarks])]

\* The body of `for p in projects` of save_data.
ProjectStmts(pr) ==
    <<InsertInto("projects",
         [id |-> pr.id, name |-> pr.name,
          type |-> IF "type" \in DOMAIN pr THEN pr.type ELSE ""])>>
      \o GatewayStmts("project", pr)
      \o (IF "modules" \in DOMAIN pr
          THEN Concat([i \in 1..Len(pr.modules) |-> ModuleStmts(pr.id, pr.modules[i])])
          ELSE <<>>)
      \o (IF "deliverables" \in DOMAIN pr
          THEN DeliverableStmts(pr.id, pr.deliverables)
          ELSE <<>>)

\* The mutant of DeleteStmts: the gateways table is not emptied.
DeleteStmts_keepgateways ==
    <<DeleteFrom("modules"), DeleteFrom("modules"), DeleteFrom("projects"),
      DeleteFrom("project_deliverables")>>

\* "Delete All": the six DELETE statements, in the order of the code.
DeleteStmts ==
    <<DeleteFrom("gateways"), DeleteFrom("modules"), DeleteFrom("gateways"),
      DeleteFrom("modules"), DeleteFrom("projects"), DeleteFrom("project_deliverables")>>

\* Every statement save_data executes for a list, in order.
SaveStmts(projs) ==
    DeleteStmts \o Concat([i \in 1..Len(projs) |-> ProjectStmts(projs[i])])

\* The statements from the i-th on, executed in the transaction tx.  The
\* statement number fault fails for a reason of the environment (the file is
\* locked, the disk is full); fault 0 is no such failure.
RECURSIVE ExecuteFrom(_, _, _, _)
ExecuteFrom(tx, stmts, i, fault) ==
    IF i > Len(stmts) THEN [raised |-> FALSE, at |-> 0, tx |-> tx]
    ELSE IF i = fault \/ Raises(tx, stmts[i]) THEN [raised |-> TRUE, at |-> i, tx |-> tx]
    ELSE ExecuteFrom(Exec(tx, stmts[i]), stmts, i + 1, fault)

\* The mutant of AfterFailure: what the statements wrote before the failure
\* stays in the file.
AfterFailure_partial(before, tx) == tx

\* The file after a save that raised: conn.commit() was not reached, and the
\* connection, dropped with the frame, rolls the transaction back.
AfterFailure(before, tx) == before

\* What save_data returns and leaves in the file, given the list after the
\* in-place rollup and the run of its statements.  The first `except Exception`
\* has no return statement, so a save that raised returns None; the second
\* handler, with its `return False`, is never entered.
SaveOutcome(rolled, file, run) ==
    IF run.raised
    THEN [projects |-> rolled, db |-> AfterFailure(file, run.tx),
          raised |-> TRUE, at |-> run.at, result |-> "None"]
    ELSE [projects |-> rolled, db |-> run.tx, raised |-> FALSE, at |-> 0,
          result |-> "True"]

\* The statements of save_data, run on the file for the rolled-up list.
SaveRolled(rolled, file, fault) ==
    SaveOutcome(rolled, file, ExecuteFrom(file, SaveStmts(rolled), 1, fault))

\* The mutant of save_data: the statements run on the list as it was passed.
save_data_norollup(projs, file, fault) == SaveRolled(projs, file, fault)

\* save_data(projects) on the file db: the list after the in-place rollup, the
\* file, the value returned, and the number of the statement that raised.
save_data(projs, file, fault) == SaveRolled(calculate_rollup(projs), file, fault)

\* ------------------------------------------------------------------------
\* utils.load_data
\* ------------------------------------------------------------------------

\* The rows of the gateways table for one entity.
GatewayRows(file, etype, eid) ==
    {r \in file.gateways : r.entity_type = etype /\ r.entity_id = eid}

\* `for gw in p_gws`: plan and actual, a NULL or empty actual read as ''.
ProjectGateways(file, eid) ==
    LET rows == GatewayRows(file, "project", eid)
    IN  [g \in {r.gateway : r \in rows} |->
            LET r == CHOOSE x \in rows : x.gateway = g
            IN  [p |-> r.plan_date,
                 a |-> IF Truthy(r.actual_date) THEN r.actual_date ELSE EmptyStr]]

\* `for gw in m_gws` and `for gw in s_gws`: plan, actual and ecn as stored.
ModuleGateways(file, eid) ==
    LET rows == GatewayRows(file, "module", eid)
    IN  [g \in {r.gateway : r \in rows} |->
            LET r == CHOOSE x \in rows : x.gateway = g
            IN  [p |-> r.plan_date, a |-> r.actual_date, ecn |-> r.ecn]]

\* `for s_row in subs_db`
LoadSubModules(file, pid, mid) ==
    LET rows == SortById({r \in file.modules : r.project_id = pid /\ r.parent_module_id = mid})
    IN  [j \in 1..Len(rows) |->
            [id |-> rows[j].id, name |-> rows[j].name,
             gateways |-> ModuleGateways(file, rows[j].id)]]

\* `for m_row in mods_db`: the modules whose parent_module_id IS NULL.
LoadModules(file, pid) ==
    LET rows == SortById({r \in file.modules : r.project_id = pid /\ r.parent_module_id = NullId})
    IN  [i \in 1..Len(rows) |->
            [id |-> rows[i].id, name |-> rows[i].name,
             gateways |-> ModuleGateways(file, rows[i].id),
             sub_modules |-> LoadSubModules(file, pid, rows[i].id)]]

\* `for d in delivs`
LoadDeliverables(file, pid) ==
    LET rows == SortById({r \in file.project_deliverables : r.project_id = pid})
    IN  [j \in 1..Len(rows) |->
            [id |-> rows[j].id, gateway_stage |-> rows[j].gateway_stage,
             deliverable_name |-> rows[j].deliverable_name, status |-> rows[j].status,
             evidence_link |-> rows[j].evidence_link, remarks |-> rows[j].remarks]]

\* The hydration of load_data, before its rollup.
Hydrate(file) ==
    LET rows == SortById(file.projects)
    IN  [i \in 1..Len(rows) |->
            [id |-> rows[i].id, name |-> rows[i].name, type |-> rows[i].type,
             gateways |-> ProjectGateways(file, rows[i].id),
             modules |-> LoadModules(file, rows[i].id),
             deliverables |-> LoadDeliverables(file, rows[i].id)]]

\* load_data() on the file db.
load_data(file) == calculate_rollup(Hydrate(file))

\* ------------------------------------------------------------------------
\* utils.populate_deliverables and utils.process_csv_upload
\* ------------------------------------------------------------------------

\* master_gateway_checklist.csv, a file beside the sources: three rows with
\* the columns Gateway, Delivarables, Major and Minor.
MasterChecklist ==
    <<[Gateway |-> "D0", Delivarables |-> "Project Charter", Major |-> "YES", Minor |-> "YES"],
      [Gateway |-> "D0", Delivarables |-> "Feasibility Study", Major |-> "YES", Minor |-> "NO"],
      [Gateway |-> "D1", Delivarables |-> "Prototype Report", Major |-> "Yes", Minor |-> "Yes"]>>

\* The mutant of FilteredRows: a Minor project is given the rows of Major.
FilteredRows_major(df, project_type) ==
    LET Flagged(r) == r.Major \in {"YES", "Yes", "yes"} IN SelectSeq(df, Flagged)

\* filtered_df for the types 'Major' and 'Minor': the rows of df whose cell in
\* the column of the type is 'YES' after .str.upper().
FilteredRows(df, project_type) ==
    LET StrUpper(cell) == CASE cell \in {"YES", "Yes", "yes"} -> "YES"
                            [] cell \in {"NO", "No", "no"} -> "NO"
                            [] OTHER -> cell
        Flagged(r) == \/ project_type = "Major" /\ StrUpper(r.Major) = "YES"
                      \/ project_type = "Minor" /\ StrUpper(r.Minor) = "YES"
    IN  SelectSeq(df, Flagged)

\* populate_deliverables(project_id, project_type) at the millisecond ms, where
\* csv is the checklist file: no element when the file does not exist, else
\* its rows.  The id of a deliverable is the millisecond plus a random number:
\* the i-th row draws i, and with collide the second row draws what the first
\* drew.
PopulateFrom(csv, project_type, ms, collide) ==
    IF csv = <<>> THEN <<>>
    ELSE IF project_type \notin {"Major", "Minor"} THEN <<>>
    ELSE LET rows == FilteredRows(csv[1], project_type)
         IN  [i \in 1..Len(rows) |->
                 [id |-> ms + (IF collide /\ i = 2 THEN 1 ELSE i),
                  gateway_stage |-> rows[i].Gateway,
                  deliverable_name |-> rows[i].Delivarables,
                  status |-> "Pending", evidence_link |-> "", remarks |-> ""]]

\* populate_deliverables(project_id, project_type) with the checklist file of
\* the repository.
populate_deliverables(project_type, ms, collide) ==
    PopulateFrom(<<MasterChecklist>>, project_type, ms, collide)

\* The index of the first element of a list with the given name, 0 if none:
\* next((x for x in xs if x['name'] == name), None).
RECURSIVE FirstNamedFrom(_, _, _)
FirstNamedFrom(xs, name, i) ==
    IF i > Len(xs) THEN 0
    ELSE IF xs[i].name = name THEN i
    ELSE FirstNamedFrom(xs, name, i + 1)

FirstNamed(xs, name) == FirstNamedFrom(xs, name, 1)

\* proj_map = {p['name']: p for p in current_projects}: of the projects with
\* one name the last stays in the dict.
ProjMap(projs) ==
    [nm \in {projs[i].name : i \in 1..Len(projs)} |->
        CHOOSE i \in 1..Len(projs) :
            /\ projs[i].name = nm
            /\ \A j \in 1..Len(projs) : projs[j].name = nm => j <= i]

\* "Update Module Gateways": every gateway gets a dict, and the gateway of the
\* row gets the cells that are not empty.
UpdateModuleGateways(gws, row) ==
    LET ensured == [g \in GWSet |-> IF g \in DOMAIN gws THEN gws[g] ELSE <<>>]
        c0 == ensured[row.gw]
        c1 == IF Truthy(row.plan) THEN SetKey(c0, "p", row.plan) ELSE c0
        c2 == IF Truthy(row.act) THEN SetKey(c1, "a", row.act) ELSE c1
        c3 == IF Truthy(row.ecn) THEN SetKey(c2, "ecn", row.ecn) ELSE c2
    IN  [ensured EXCEPT ![row.gw] = c3]

\* "Module Handling", the parent found: the sub-module of the row is found by
\* name or created with the id nid, and its gateways are updated.
MergeSub(pr, row, nid, pidx, sidx) ==
    [projectv |->
        [pr EXCEPT !.modules[pidx] =
            SetKey(pr.modules[pidx], "sub_modules",
                IF sidx # 0
                THEN [SubsOf(pr.modules[pidx]) EXCEPT
                         ![sidx].gateways = UpdateModuleGateways(@, row)]
                ELSE Append(SubsOf(pr.modules[pidx]),
                         [id |-> nid, name |-> row.module,
                          gateways |-> UpdateModuleGateways(<<>>, row)]))],
     created |-> IF sidx # 0 THEN 0 ELSE 1]

\* "Module Handling", no parent named or found: the module of the row is found
\* by name or created with the id nid, and its gateways are updated.
MergeRoot(pr, row, nid, midx) ==
    [projectv |->
        [pr EXCEPT !.modules =
            IF midx # 0
            THEN [pr.modules EXCEPT ![midx].gateways = UpdateModuleGateways(@, row)]
            ELSE Append(pr.modules,
                     [id |-> nid, name |-> row.module,
                      gateways |-> UpdateModuleGateways(<<>>, row),
                      sub_modules |-> <<>>])],
     created |-> IF midx # 0 THEN 0 ELSE 1]

\* pidx is the index of the parent module, 0 when the row names none or names
\* one the project does not have.
MergeAt(pr, row, nid, pidx) ==
    IF pidx # 0
    THEN MergeSub(pr, row, nid, pidx, FirstNamed(SubsOf(pr.modules[pidx]), row.module))
    ELSE MergeRoot(pr, row, nid, FirstNamed(pr.modules, row.module))

\* "Module Handling" for the project pr: the project after it and the number
\* of ids drawn.
MergeModule(pr, row, nid) ==
    IF row.module = "" THEN [projectv |-> pr, created |-> 0]
    ELSE MergeAt(pr, row, nid,
                 IF row.parent # "" THEN FirstNamed(pr.modules, row.parent) ELSE 0)

\* `if p_name not in proj_map`: a project with empty gateways and no modules
\* is appended.  acc holds the list, proj_map as indexes into it, and the
\* number of ids drawn so far; an id is the millisecond ms plus a random
\* number, here one more for every id drawn.
EnsureProject(acc, row, ms) ==
    IF row.project \in DOMAIN acc.map THEN acc
    ELSE [list |-> Append(acc.list,
                      [id |-> ms + acc.drawn, name |-> row.project,
                       type |-> IF row.type # "" THEN row.type ELSE "New",
                       gateways |-> <<>>, modules |-> <<>>]),
          map |-> SetKey(acc.map, row.project, Len(acc.list) + 1),
          drawn |-> acc.drawn + 1]

\* `if p_type: project['type'] = p_type`
UpdateType(pr, row) == IF row.type # "" THEN SetKey(pr, "type", row.type) ELSE pr

\* The plan cell of the row's gateway, stored in the project when not empty.
UpdateProjectPlan(pr, row) ==
    IF Truthy(row.plan)
    THEN [pr EXCEPT !.gateways =
             IF row.gw \notin DOMAIN pr.gateways
             THEN SetKey(pr.gateways, row.gw, [p |-> row.plan, a |-> EmptyStr])
             ELSE SetKey(pr.gateways, row.gw, SetKey(pr.gateways[row.gw], "p", row.plan))]
    ELSE pr

\* The project at pidx replaced by the merged one.
StoreMerged(acc, pidx, merged) ==
    [list |-> [acc.list EXCEPT ![pidx] = merged.projectv],
     map |-> acc.map, drawn |-> acc.drawn + merged.created]

\* The row merged into its project, which the list holds.
MergeRow(acc, row, ms) ==
    StoreMerged(acc, acc.map[row.project],
        MergeModule(UpdateProjectPlan(UpdateType(acc.list[acc.map[row.project]], row), row),
                    row, ms + acc.drawn))

\* The body of `for _, row in df.iterrows()`.
ProcessRow(acc, row, ms) ==
    IF row.project = "" THEN acc ELSE MergeRow(EnsureProject(acc, row, ms), row, ms)

RECURSIVE ProcessRows(_, _, _, _)
ProcessRows(acc, rows, i, ms) ==
    IF i > Len(rows) THEN acc
    ELSE ProcessRows(ProcessRow(acc, rows[i], ms), rows, i + 1, ms)

\* process_csv_upload(csv_file, current_projects) for a file that pandas reads:
\* the merged list (the message is "Success").
process_csv_upload(rows, current_projects, ms) ==
    ProcessRows([list |-> current_projects, map |-> ProjMap(current_projects), drawn |-> 0],
                rows, 1, ms).list

\* ------------------------------------------------------------------------
\* app.py: the session and its script runs
\* ------------------------------------------------------------------------

ProjectTypes == <<"Major", "Minor", "Carryover">>

ProjectTypeSet == {ProjectTypes[i] : i \in 1..Len(ProjectTypes)}

Views == {"Dashboard", "Detailed Project View", "Deliverables Tracker"}

\* all_types, as a set.
AllTypes(projs) == {projs[i].type : i \in 1..Len(projs)}

\* str() of a parsed date, None for a text that did not parse.
DateText(t) == IF t.ok THEN isoformat(t.y, t.m, t.d) ELSE NoneV

\* parse_date(d_str) followed by str(): the canonical text of the date, or None.
ParsedText(v) == IF ~Truthy(v) THEN NoneV ELSE DateText(strptime(v))

\* The day number of a parsed date.
Ordinal(t) == toordinal(t.y, t.m, t.d)

\* The day number of a text that parses as a date.
OrdinalOf(v) == Ordinal(strptime(v))

\* max() of the dates so far and one more, the texts of dates; None is no date
\* and '' no date so far.
LaterParsed(t, best) ==
    IF t # NoneV /\ (best = EmptyStr \/ OrdinalOf(t) > OrdinalOf(best)) THEN t ELSE best

\* str(max(dates)) over the actuals of a list of entities that parse as dates,
\* '' when none does.
RECURSIVE MaxParsed(_, _, _)
MaxParsed(ents, gw, best) ==
    IF ents = <<>> THEN best
    ELSE MaxParsed(Tail(ents), gw, LaterParsed(ParsedText(GwGet(Head(ents), gw, "a")), best))

\* e['gateways'][gw]['a'] = v
SetActual(e, gw, v) == [e EXCEPT !.gateways[gw] = SetKey(@, "a", v)]

\* ------------------------------------------------------------------------
\* app.py: the Detailed Project View, rendered top to bottom
\* ------------------------------------------------------------------------

\* save_data has not been called.
NoSave ==
    [called |-> FALSE, before |-> EmptyDb, arg |-> <<>>, result |-> NotCalled,
     raised |-> FALSE, at |-> 0]

\* The state of a script run: the list, the file, the last save_data call of
\* the run if it made one, whether the run has stopped (st.rerun() or an
\* uncaught exception) and whether a new run was requested.
RunStart(projs, file) ==
    [list |-> projs, file |-> file, rec |-> NoSave, stop |-> FALSE, rerun |-> FALSE]

\* What a widget does to the list: nothing, an uncaught exception, or a
\* mutation followed by utils.save_data(projects) and, with rerun, st.rerun().
NoEdit == [kind |-> "none", list |-> <<>>, rerun |-> FALSE]

CrashEdit == [kind |-> "crash", list |-> <<>>, rerun |-> FALSE]

SaveEdit(list, rr) == [kind |-> "save", list |-> list, rerun |-> rr]

\* The run after the save_data call r of the edit e: the list rolled up in
\* place, the file, and the record of the call.
Saved(rs, e, r) ==
    [list |-> r.projects, file |-> r.db,
     rec |-> [called |-> TRUE, before |-> rs.file, arg |-> r.projects,
              result |-> r.result, raised |-> r.raised, at |-> r.at],
     stop |-> e.rerun, rerun |-> e.rerun]

\* The run after the edit e.
Commit(rs, e, fault) ==
    IF e.kind = "none" THEN rs
    ELSE IF e.kind = "crash" THEN [rs EXCEPT !.stop = TRUE]
    ELSE Saved(rs, e, save_data(e.list, rs.file, fault))

\* A save_data call outside the rendering of the Detailed Project View.
SaveCall(projs, file, fault) == Commit(RunStart(projs, file), SaveEdit(projs, FALSE), fault)

\* '' for None.
NoneAsEmpty(t) == IF t = NoneV THEN EmptyStr ELSE t

\* What a date widget that shows the actual a_date returns when the user has
\* not touched it, as the code stores it: the canonical text of a date that
\* parses, '' for a text that does not.
WidgetActual(a_date) == NoneAsEmpty(ParsedText(a_date))

\* One widget of the rendering.  k names the widget, i the project, mi the
\* module, si the sub-module, gw the gateway, subs whether the module has
\* sub-modules (has_subs, read once per module).
Widget(k, i, mi, si, gw, subs) ==
    [k |-> k, i |-> i, mi |-> mi, si |-> si, gw |-> gw, subs |-> subs]

\* "Add Modules": a module with the five gateway records and the id ms is
\* appended.
EditAddModule(list, w, ms) ==
    SaveEdit([list EXCEPT ![w.i].modules =
                 Append(@, [id |-> ms, name |-> "New Module",
                            gateways |-> [g \in GWSet |->
                                [p |-> EmptyStr, a |-> EmptyStr, ecn |-> EmptyStr]]])],
             TRUE)

\* The delete button of a project: projects.remove(p).
EditDeleteProject(list, w) ==
    SaveEdit([j \in 1..(Len(list) - 1) |-> IF j < w.i THEN list[j] ELSE list[j + 1]], TRUE)

\* The type selectbox: a type that is not in its options shows as the first
\* option, which is stored.
EditType(list, w) ==
    IF list[w.i].type \in ProjectTypeSet THEN NoEdit
    ELSE SaveEdit([list EXCEPT ![w.i].type = ProjectTypes[1]], FALSE)

\* The mutant of StorePlan: a cleared widget is stored as ''.
StorePlan_cleared(list, w, curr_p, new_pd) ==
    IF new_pd # curr_p
    THEN SaveEdit([list EXCEPT ![w.i].gateways[w.gw] = SetKey(@, "p", NoneAsEmpty(new_pd))], FALSE)
    ELSE NoEdit

\* `if str(new_pd) != curr_p and new_pd`
StorePlan(list, w, curr_p, new_pd) ==
    IF new_pd # NoneV /\ new_pd # curr_p
    THEN SaveEdit([list EXCEPT ![w.i].gateways[w.gw] = SetKey(@, "p", new_pd)], FALSE)
    ELSE NoEdit

\* The plan widget of one gateway column of a project.  p['gateways'][gw]
\* raises KeyError for a project without the gateway.
EditProjectPlan(list, w) ==
    IF w.gw \notin DOMAIN list[w.i].gateways THEN CrashEdit
    ELSE StorePlan(list, w, Get(list[w.i].gateways[w.gw], "p"),
                   ParsedText(Get(list[w.i].gateways[w.gw], "p")))

\* "Update Project Data if changed"
StoreProjectActual(list, w, proj_a_str) ==
    IF Get(list[w.i].gateways[w.gw], "a") # proj_a_str
    THEN SaveEdit([list EXCEPT ![w.i] = SetActual(@, w.gw, proj_a_str)], FALSE)
    ELSE NoEdit

\* The actual of one gateway column of a project, computed from the module
\* actuals that parse.
EditProjectActual(list, w) ==
    StoreProjectActual(list, w, MaxParsed(list[w.i].modules, w.gw, EmptyStr))

\* A module with sub-modules: the latest of the sub-module actuals that parse
\* is stored if there is one.
StoreModuleActual(list, w, max_date) ==
    IF max_date = EmptyStr THEN NoEdit
    ELSE IF w.gw \notin DOMAIN list[w.i].modules[w.mi].gateways THEN CrashEdit
    ELSE IF Get(list[w.i].modules[w.mi].gateways[w.gw], "a") # max_date
    THEN SaveEdit([list EXCEPT ![w.i].modules[w.mi] = SetActual(@, w.gw, max_date)], FALSE)
    ELSE NoEdit

\* A module without sub-modules: the date widget is read.
StoreWidgetActual(list, w, a_date, new_act) ==
    IF Truthy(a_date) /\ new_act # a_date
    THEN SaveEdit([list EXCEPT ![w.i].modules[w.mi] = SetActual(@, w.gw, new_act)], FALSE)
    ELSE NoEdit

\* One gateway column of a module.
EditModuleGw(list, w) ==
    IF w.subs
    THEN StoreModuleActual(list, w,
             MaxParsed(list[w.i].modules[w.mi].sub_modules, w.gw, EmptyStr))
    ELSE StoreWidgetActual(list, w, GwGet(list[w.i].modules[w.mi], w.gw, "a"),
             WidgetActual(GwGet(list[w.i].modules[w.mi], w.gw, "a")))

\* The date widget of a sub-module: a change is saved and followed by
\* st.rerun().
StoreSubActual(list, w, sa_date, s_new_act) ==
    IF Truthy(sa_date) /\ s_new_act # sa_date
    THEN SaveEdit([list EXCEPT ![w.i].modules[w.mi].sub_modules[w.si] =
                      SetActual(@, w.gw, s_new_act)], TRUE)
    ELSE NoEdit

\* One gateway column of a sub-module.
EditSubGw(list, w) ==
    StoreSubActual(list, w, GwGet(list[w.i].modules[w.mi].sub_modules[w.si], w.gw, "a"),
        WidgetActual(GwGet(list[w.i].modules[w.mi].sub_modules[w.si], w.gw, "a")))

\* "Sub": a sub-module with the five gateway records and the id ms is
\* appended to the module.
EditAddSub(list, w, ms) ==
    SaveEdit([list EXCEPT ![w.i].modules[w.mi] =
                 SetKey(@, "sub_modules",
                        Append(SubsOf(@), [id |-> ms, name |-> "New Part",
                                           gateways |-> [g \in GWSet |->
                                               [p |-> EmptyStr, a |-> EmptyStr, ecn |-> EmptyStr]]]))],
             TRUE)

\* The delete button of a sub-module: m['sub_modules'].pop(s_idx).
EditDeleteSub(list, w) ==
    SaveEdit([list EXCEPT ![w.i].modules[w.mi].sub_modules =
                 [j \in 1..(Len(@) - 1) |-> IF j < w.si THEN @[j] ELSE @[j + 1]]],
             TRUE)

\* The buttons, pressed by the user; the other widgets act while they render.
Buttons == {"add_module", "delete_project"}

\* The buttons of a module and of a sub-module.
ModuleButtons == {"add_sub", "delete_sub"}

\* What the widget w does at the millisecond ms.
WidgetEdit(list, w, ms) ==
    CASE w.k = "add_module" -> EditAddModule(list, w, ms)
      [] w.k = "delete_project" -> EditDeleteProject(list, w)
      [] w.k = "add_sub" -> EditAddSub(list, w, ms)
      [] w.k = "delete_sub" -> EditDeleteSub(list, w)
      [] w.k = "type" -> EditType(list, w)
      [] w.k = "project_plan" -> EditProjectPlan(list, w)
      [] w.k = "project_actual" -> EditProjectActual(list, w)
      [] w.k = "module_gw" -> EditModuleGw(list, w)
      [] w.k = "sub_gw" -> EditSubGw(list, w)

\* The widgets of a module in the order the script reaches them: its "Sub"
\* button if it is the one pressed, its five gateway columns, then for each
\* sub-module the delete button if it is the one pressed and the five gateway
\* columns.  The key of a button holds the id of its module or sub-module,
\* which pressed carries as mi or si.
ModuleWidgets(i, mi, m, pressed) ==
    (IF pressed.k = "add_sub" /\ pressed.mi = m.id
     THEN <<Widget("add_sub", i, mi, 0, "", SubsOf(m) # <<>>)>> ELSE <<>>)
      \o [g \in 1..Len(GW) |-> Widget("module_gw", i, mi, 0, GW[g], SubsOf(m) # <<>>)]
      \o Concat([si \in 1..Len(SubsOf(m)) |->
                    (IF pressed.k = "delete_sub" /\ pressed.si = SubsOf(m)[si].id
                     THEN <<Widget("delete_sub", i, mi, si, "", TRUE)>> ELSE <<>>)
                      \o [g \in 1..Len(GW) |-> Widget("sub_gw", i, mi, si, GW[g], TRUE)]])

\* The plan widget and the actual of each gateway column of a project, column
\* by column.
ProjectGwWidgets(i) ==
    [n \in 1..(2 * Len(GW)) |->
        Widget(IF n % 2 = 1 THEN "project_plan" ELSE "project_actual",
               i, 0, 0, GW[(n + 1) \div 2], FALSE)]

\* The widgets of the i-th project, after the button pressed in its header,
\* if one is: the key of a button holds the id of its project, which pressed
\* carries as i.
ProjectWidgets(i, pr, pressed) ==
    (IF pressed.i = pr.id /\ pressed.k \in Buttons THEN <<[pressed EXCEPT !.i = i]>> ELSE <<>>)
      \o <<Widget("type", i, 0, 0, "", FALSE)>>
      \o ProjectGwWidgets(i)
      \o Concat([mi \in 1..Len(pr.modules) |->
                    ModuleWidgets(i, mi, pr.modules[mi], pressed)])

\* `for p in filtered_projects`: the projects whose type is selected.
DetailedWidgets(projs, types, pressed) ==
    Concat([i \in 1..Len(projs) |->
               IF projs[i].type \in types THEN ProjectWidgets(i, projs[i], pressed)
               ELSE <<>>])

\* The widgets from the j-th on, until the run stops.  fault is the failure of
\* the environment for the save of a button.
RECURSIVE RunWidgets(_, _, _, _, _)
RunWidgets(rs, ws, j, ms, fault) ==
    IF j > Len(ws) \/ rs.stop THEN rs
    ELSE RunWidgets(Commit(rs, WidgetEdit(rs.list, ws[j], ms),
                           IF ws[j].k \in Buttons \cup ModuleButtons THEN fault ELSE 0),
                    ws, j + 1, ms, fault)

\* No button is pressed (no project has the id 0).
NoButton == Widget("none", 0, 0, 0, "", FALSE)

\* The view rendered on what load_data() returned.
RunLoaded(loaded, file, types, pressed, ms, fault) ==
    RunWidgets(RunStart(loaded, file), DetailedWidgets(loaded, types, pressed), 1, ms, fault)

\* A script run in the Detailed Project View on the file: load_data(), then
\* the view.
RunDetailed(file, types, pressed, ms, fault) ==
    RunLoaded(load_data(file), file, types, pressed, ms, fault)

\* ------------------------------------------------------------------------
\* The classifier applied to bounded inputs
\* ------------------------------------------------------------------------

\* First year of the generated date strings.
BaseYear == 2023

\* The generated date strings span the years BaseYear..BaseYear+MaxYearSpan.
MaxYearSpan == 1

\* ... and the months 1..MaxMonth.
MaxMonth == 3

DaySamples == {1, 2, 15, 28, 29, 30, 31}

\* What the date widgets can store, and the same text for day numbers the
\* month does not have (2023-02-29, 2024-02-30).
GeneratedDates ==
    {isoformat(y, m, d) : y \in BaseYear..(BaseYear + MaxYearSpan),
                          m \in 1..MaxMonth, d \in DaySamples}

\* Other texts a plan or an actual can hold (process_csv_upload stores the
\* cell text as it is).
OddTexts ==
    { NoneV, EmptyStr,
      <<"2","0","2","4","-","1","-","5">>,
      <<"2","0","2","4","-","0","1","-"," ","5">>,
      <<"2","0","2","4","-","1","3","-","0","1">>,
      <<"2","0","2","4","-","0","0","-","1","0">>,
      <<"2","0","2","4","-","0","1","-","0","0">>,
      <<"2","0","2","4","-","0","1","-","0","5","x">>,
      <<"2","0","2","4","-","0","1","-","0","5"," ">>,
      <<"2","0","2","4","/","0","1","/","0","5">>,
      <<"0","0","0","0","-","0","1","-","0","1">>,
      <<"2","0","2","4","0","1","0","5">>,
      <<"n","/","a">> }

StatusInputs == GeneratedDates \cup OddTexts

StatusIdle == st_plan = NoneV /\ st_actual = NoneV /\ st_result = NotCalled

RollupIdle == rl_projects = <<>> /\ rl_prev = <<>> /\ rl_calls = 0

\* calculate_project_readiness has not been called.
ReadinessIdle == rd_project_id = NullId /\ rd_result = NotCalled

\* The counters of the Dashboard before its loops have run.
NoStats == [total |-> 0, active |-> 0, green |-> 0, yellow |-> 0, red |-> 0]

NoRate == [on_track_gateways |-> 0, total_released_gateways |-> 0,
           adherence_rate |-> [num |-> 0, den |-> 1]]

\* populate_deliverables has not been called.
PopulateIdle == pd_csv = <<>> /\ pd_type = "Major" /\ pd_result = <<>> /\ pd_called = FALSE

\* No file has been chosen in the upload dialog.
UploadIdle ==
    /\ up_file = <<>> /\ up_prev = <<>> /\ up_out = <<>>
    /\ up_msg = NotCalled /\ up_calls = 0

\* No second session is open.
SessionsIdle ==
    /\ cs_pc = <<>> /\ cs_loaded = <<>> /\ cs_lists = <<>>
    /\ cs_edits = <<>> /\ cs_results = <<>> /\ cs_order = <<>>

\* No script run is rendering the Dashboard.
DashboardIdle ==
    /\ ds_projects = <<>>
    /\ ds_pc = "idle"
    /\ ds_headlines = <<>>
    /\ ds_stats = NoStats
    /\ ds_rate = NoRate

\* The clock, in seconds, when the model starts.
ClockStart == 100

\* The first script run of a session on the empty tables has ended.
AppIdle ==
    /\ db = EmptyDb
    /\ projects = <<>>
    /\ view = "Dashboard"
    /\ selected_types = {}
    /\ dialog = "none"
    /\ rerun = FALSE
    /\ clock = ClockStart
    /\ events = 0
    /\ sv = NoSave
    /\ ld_fresh = TRUE

InitStatus ==
    /\ st_plan \in StatusInputs
    /\ st_actual \in StatusInputs
    /\ st_result = NotCalled
    /\ RollupIdle
    /\ AppIdle
    /\ ReadinessIdle
    /\ DashboardIdle /\ PopulateIdle /\ SessionsIdle /\ UploadIdle

\* status = utils.get_status(plan, actual)
CallGetStatus ==
    /\ st_result = NotCalled
    /\ st_result' = get_status(st_plan, st_actual)
    /\ UNCHANGED <<st_plan, st_actual>>
    /\ UNCHANGED <<rollupVars, appVars, readinessVars, dashboardVars, populateVars, sessionVars, uploadVars>>

NextStatus == CallGetStatus

SpecStatus == InitStatus /\ [][NextStatus]_vars

\* ------------------------------------------------------------------------
\* The rollup applied to bounded hierarchies
\* ------------------------------------------------------------------------

\* A hierarchy given to calculate_rollup holds at most MaxNodes modules and
\* sub-modules in its first project.
MaxNodes == 3

\* calculate_rollup is called up to MaxRollupCalls times in a row.
MaxRollupCalls == 2

\* { "p": "", "a": "", "ecn": "" }, the gateway record of the dialogs.
GwDefaults == [p |-> EmptyStr, a |-> EmptyStr, ecn |-> EmptyStr]

\* Two dates of the date widgets, a text that strptime reads but that is not
\* in canonical form, and a text that is no date.
DateA == isoformat(2024, 1, 10)

DateB == isoformat(2024, 1, 20)

DateNonCanonical == <<"2", "0", "2", "4", "-", "1", "-", "5">>

DateBad == <<"n", "/", "a">>

\* What the gateway of a sub-module or of a module can be in the dict: absent
\* (no element), or one record.  The record without keys is the one
\* process_csv_upload creates.
SubCells ==
    << <<>>,
       <<GwDefaults>>,
       <<[GwDefaults EXCEPT !.a = DateA]>>,
       <<[GwDefaults EXCEPT !.a = DateB]>>,
       <<[GwDefaults EXCEPT !.a = DateNonCanonical]>>,
       <<[GwDefaults EXCEPT !.a = DateBad]>> >>

ModCells == SubCells \o << << <<>> >> >>

\* ... and of a project: plan and actual only.
ProjCells ==
    << <<>>,
       <<[p |-> isoformat(2024, 1, 1), a |-> EmptyStr]>>,
       <<[p |-> isoformat(2024, 1, 1), a |-> DateB]>> >>

\* The gateways dict with the cell c at gateway g and the dialogs' defaults
\* elsewhere.
GatewaysWith(g, c, defaults) ==
    [x \in (IF c = <<>> THEN GWSet \ {g} ELSE GWSet) |-> IF x = g THEN c[1] ELSE defaults]

\* A module is described by the number of its cell followed by the numbers of
\* the cells of its sub-modules; a module list by the descriptions of its
\* modules, at most n modules and sub-modules together.
RECURSIVE ModuleShapes(_)
ModuleShapes(n) ==
    {<<>>} \cup
    UNION {{<<(<<mc>> \o ss)>> \o rest :
              mc \in 1..Len(ModCells), ss \in [1..k -> 1..Len(SubCells)],
              rest \in ModuleShapes(n - 1 - k)} : k \in 0..(n - 1)}

\* The module of description md, the mi-th of its project.
ModuleOf(md, mi, g) ==
    [id |-> 10 * mi, name |-> "New Module",
     gateways |-> GatewaysWith(g, ModCells[md[1]], GwDefaults),
     sub_modules |-> [j \in 1..(Len(md) - 1) |->
                        [id |-> 10 * mi + j, name |-> "New Part",
                         gateways |-> GatewaysWith(g, SubCells[md[j + 1]], GwDefaults)]]]

\* A second project, which the rollup of the first must leave alone.
Bystander(g) ==
    [id |-> 2, name |-> "Project B", type |-> "Minor",
     gateways |-> GatewaysWith(g, <<[p |-> isoformat(2024, 1, 1), a |-> EmptyStr]>>,
                               [p |-> EmptyStr, a |-> EmptyStr]),
     modules |-> <<[id |-> 90, name |-> "Module 1",
                    gateways |-> GatewaysWith(g, <<[GwDefaults EXCEPT !.a = DateA]>>, GwDefaults)]>>,
     deliverables |-> <<>>]

\* The list of two projects whose first has project cell pc and modules mds,
\* with gateway g the one that holds them.
RollupInput(g, pc, mds) ==
    <<[id |-> 1, name |-> "Project A", type |-> "Major",
       gateways |-> GatewaysWith(g, ProjCells[pc], [p |-> EmptyStr, a |-> EmptyStr]),
       modules |-> [i \in 1..Len(mds) |-> ModuleOf(mds[i], i, g)],
       deliverables |-> <<>>],
      Bystander(g)>>

InitRollup ==
    /\ \E g \in GWSet, pc \in 1..Len(ProjCells), mds \in ModuleShapes(MaxNodes) :
          rl_projects = RollupInput(g, pc, mds)
    /\ rl_prev = <<>>
    /\ rl_calls = 0
    /\ StatusIdle
    /\ AppIdle
    /\ ReadinessIdle
    /\ DashboardIdle /\ PopulateIdle /\ SessionsIdle /\ UploadIdle

\* calculate_rollup(projects)
CallRollup ==
    /\ rl_calls < MaxRollupCalls
    /\ rl_prev' = rl_projects
    /\ rl_projects' = calculate_rollup(rl_projects)
    /\ rl_calls' = rl_calls + 1
    /\ UNCHANGED <<statusVars, appVars, readinessVars, dashboardVars, populateVars, sessionVars, uploadVars>>

NextRollup == CallRollup

SpecRollup == InitRollup /\ [][NextRollup]_vars

\* ------------------------------------------------------------------------
\* The application: a session that runs the script of app.py
\* ------------------------------------------------------------------------

\* The session makes at most MaxEvents edits (dialog submissions, buttons of
\* the Detailed Project View, edits of the Deliverables Tracker).
MaxEvents == 2

\* The seconds that pass before an edit.
ClockSteps == {1, 30}

\* The statement of a save that the environment fails: none, the second DELETE,
\* the second INSERT.
FaultPoints == {0, 2, 8}

\* What the create dialog is given.
CreateNames == {"P1"}

InitialModules == {0, 2}

D0Date == isoformat(2024, 1, 1)

ModuleNames == <<"Module 1", "Module 2">>

StatusOptions == {"Pending", "WIP", "Completed", "NA"}

\* The gateway tabs of the Deliverables Tracker that are opened.
TrackedGateways == {"D0", "D1"}

\* A row of an uploaded file: the cells of one gateway, the other gateways'
\* cells empty.
CsvRow(project, type, module, parent, gw, plan, act, ecn) ==
    [project |-> project, type |-> type, module |-> module, parent |-> parent,
     gw |-> gw, plan |-> plan, act |-> act, ecn |-> ecn]

EcnText == <<"E", "C", "N", "1">>

\* The files that are uploaded: a module with a plan and an actual; two
\* sub-modules of it, the second with an actual typed without leading zeros; a
\* project with a plan only; an actual that is no date.
CsvFiles ==
    << <<CsvRow("P1", "Major", "M1", "", "D0", D0Date, DateA, EmptyStr)>>,
       <<CsvRow("P1", "", "S1", "M1", "D0", EmptyStr, DateB, EcnText),
         CsvRow("P1", "", "S2", "M1", "D0", EmptyStr, DateNonCanonical, EmptyStr)>>,
       <<CsvRow("P2", "Minor", "", "", "D1", DateA, EmptyStr, EmptyStr)>>,
       <<CsvRow("P1", "", "M1", "", "D1", EmptyStr, DateBad, EmptyStr)>> >>

InitApp == StatusIdle /\ RollupIdle /\ AppIdle /\ ReadinessIdle /\ DashboardIdle /\ PopulateIdle /\ SessionsIdle /\ UploadIdle

\* The page is opened in a new session: the first script run, in the
\* Dashboard, sets the selected types to the types of the projects.
NewSession ==
    /\ \E loaded \in {load_data(db)} :
          /\ projects' = loaded
          /\ selected_types' = AllTypes(loaded)
    /\ view' = "Dashboard"
    /\ dialog' = "none"
    /\ rerun' = FALSE
    /\ ld_fresh' = TRUE
    /\ UNCHANGED <<db, clock, events, sv>>
    /\ UNCHANGED <<statusVars, rollupVars, readinessVars, dashboardVars, populateVars, sessionVars, uploadVars>>

\* A navigation tile is pressed: the run loads, sets the view and calls
\* st.rerun().
Navigate(v) ==
    /\ ~rerun
    /\ v # view
    /\ projects' = load_data(db)
    /\ view' = v
    /\ dialog' = "none"
    /\ rerun' = TRUE
    /\ ld_fresh' = TRUE
    /\ UNCHANGED <<db, selected_types, clock, events, sv>>
    /\ UNCHANGED <<statusVars, rollupVars, readinessVars, dashboardVars, populateVars, sessionVars, uploadVars>>

\* The end of a script run of the Detailed Project View.
EndDetailed(rs) ==
    /\ projects' = rs.list
    /\ db' = rs.file
    /\ sv' = IF rs.rec.called THEN rs.rec ELSE sv
    /\ rerun' = rs.rerun
    /\ ld_fresh' = ~rs.rec.called

\* The end of a script run of another view: the Dashboard drops the selected
\* types that no project has, and asks for a new run if it dropped one.
EndOther(loaded) ==
    /\ projects' = loaded
    /\ selected_types' = IF view = "Dashboard" THEN selected_types \cap AllTypes(loaded)
                         ELSE selected_types
    /\ rerun' = (selected_types' # selected_types)
    /\ dialog' = "none"
    /\ ld_fresh' = TRUE
    /\ UNCHANGED <<db, sv>>

\* A script run without an edit: the run that st.rerun() asked for, or the run
\* of a button that opens a dialog of the Detailed Project View.
RunScript(open) ==
    /\ open # "none" => (view = "Detailed Project View" /\ ~rerun)
    /\ IF view = "Detailed Project View"
       THEN /\ \E rs \in {RunDetailed(db, selected_types, NoButton, 0, 0)} :
                  /\ EndDetailed(rs)
                  /\ dialog' = IF rs.rerun THEN "none" ELSE open
            /\ UNCHANGED selected_types
       ELSE \E loaded \in {load_data(db)} : EndOther(loaded)
    /\ UNCHANGED <<view, clock, events>>
    /\ UNCHANGED <<statusVars, rollupVars, readinessVars, dashboardVars, populateVars, sessionVars, uploadVars>>

\* The end of a dialog's submission: st.rerun(), which closes the dialog, if
\* save_data returned a truthy value.
EndDialog(c) ==
    /\ projects' = c.list
    /\ db' = c.file
    /\ sv' = c.rec
    /\ rerun' = (c.rec.result = "True")
    /\ dialog' = IF c.rec.result = "True" THEN "none" ELSE dialog
    /\ events' = events + 1
    /\ ld_fresh' = FALSE
    /\ UNCHANGED <<view, selected_types>>
    /\ UNCHANGED <<statusVars, rollupVars, readinessVars, dashboardVars, populateVars, sessionVars, uploadVars>>

\* new_proj of modal_create_project, created at the second new_id.
NewProj(new_id, new_name, new_type, num_modules, collide) ==
    [id |-> new_id, name |-> new_name, type |-> new_type,
     gateways |-> [g \in GWSet |-> IF g = "D0" THEN [p |-> D0Date, a |-> EmptyStr]
                                    ELSE [p |-> EmptyStr, a |-> EmptyStr]],
     modules |-> [i \in 1..num_modules |->
                    [id |-> new_id + i, name |-> ModuleNames[i],
                     gateways |-> [g \in GWSet |->
                         IF g = "D0" THEN [p |-> D0Date, a |-> EmptyStr, ecn |-> EmptyStr]
                         ELSE [p |-> EmptyStr, a |-> EmptyStr, ecn |-> EmptyStr]]]],
     deliverables |-> populate_deliverables(new_type, new_id * 1000, collide)]

\* modal_create_project, the form submitted: the new project is appended to
\* the list of the run that opened the dialog, and the list is saved.
SubmitCreateProject(new_name, new_type, num_modules, dt, collide, fault) ==
    /\ dialog = "create" /\ ~rerun /\ events < MaxEvents
    /\ \E c \in {SaveCall(Append(projects,
                     NewProj(clock + dt, new_name, new_type, num_modules, collide)),
                     db, fault)} : EndDialog(c)
    /\ clock' = clock + dt

\* modal_upload_csv, "Process Upload" pressed: the file is merged into the
\* list of the run that opened the dialog, and the list is saved.
SubmitUploadCsv(f, dt, fault) ==
    /\ dialog = "upload" /\ ~rerun /\ events < MaxEvents
    /\ \E c \in {SaveCall(process_csv_upload(CsvFiles[f], projects, (clock + dt) * 1000),
                          db, fault)} : EndDialog(c)
    /\ clock' = clock + dt

\* A button in the header of the i-th project on the screen of the Detailed
\* Project View is pressed: the run loads, renders the projects above the
\* button, and reaches it.
PressProjectButton(k, i, dt, fault) ==
    /\ view = "Detailed Project View" /\ ~rerun /\ events < MaxEvents
    /\ i \in 1..Len(projects)
    /\ projects[i].type \in selected_types
    /\ \E rs \in {RunDetailed(db, selected_types, Widget(k, projects[i].id, 0, 0, "", FALSE),
                              (clock + dt) * 1000, fault)} : EndDetailed(rs)
    /\ dialog' = "none"
    /\ clock' = clock + dt
    /\ events' = events + 1
    /\ UNCHANGED <<view, selected_types>>
    /\ UNCHANGED <<statusVars, rollupVars, readinessVars, dashboardVars, populateVars, sessionVars, uploadVars>>

\* The index of the first deliverable with the id: `if d['id'] == row_id`,
\* followed by break.
RECURSIVE FirstWithId(_, _, _)
FirstWithId(ds, id, j) ==
    IF j > Len(ds) THEN 0
    ELSE IF ds[j].id = id THEN j
    ELSE FirstWithId(ds, id, j + 1)

\* The deliverables of the gateway tab, in the order of the table.
StageDeliverables(ds, active_gw) ==
    LET InStage(d) == d.gateway_stage = active_gw IN SelectSeq(ds, InStage)

\* The mutant of StoreStatus: the status is stored in every deliverable of the
\* project.
StoreStatus_all(loaded, sel, row, status) ==
    [loaded EXCEPT ![sel].deliverables =
        [j \in 1..Len(@) |-> [@[j] EXCEPT !.status = status]]]

\* The status of the k-th row of the table changed: it is stored in the first
\* deliverable of the project with the id of the row.
StoreStatus(loaded, sel, row, status) ==
    [loaded EXCEPT ![sel].deliverables[FirstWithId(loaded[sel].deliverables, row.id, 1)].status
                      = status]

\* The Deliverables Tracker, a status changed in the table of the gateway
\* active_gw of the project selected by name: the run loads, stores the
\* status, and saves.
EditDeliverable(selected_p_name, active_gw, k, status, fault) ==
    /\ view = "Deliverables Tracker" /\ ~rerun /\ events < MaxEvents
    /\ \E loaded \in {load_data(db)} :
       \E sel \in {FirstNamed(loaded, selected_p_name)} \ {0} :
       \E gw_delivs \in {StageDeliverables(loaded[sel].deliverables, active_gw)} :
          /\ k \in 1..Len(gw_delivs)
          /\ status # gw_delivs[k].status
          /\ \E c \in {SaveCall(StoreStatus(loaded, sel, gw_delivs[k], status), db, fault)} :
                /\ projects' = c.list
                /\ db' = c.file
                /\ sv' = c.rec
    /\ rerun' = FALSE
    /\ dialog' = "none"
    /\ events' = events + 1
    /\ ld_fresh' = FALSE
    /\ UNCHANGED <<view, selected_types, clock>>
    /\ UNCHANGED <<statusVars, rollupVars, readinessVars, dashboardVars, populateVars, sessionVars, uploadVars>>

NextApp ==
    \/ NewSession
    \/ \E v \in Views : Navigate(v)
    \/ \E open \in {"none", "create", "upload"} : RunScript(open)
    \/ \E new_name \in CreateNames, new_type \in ProjectTypeSet, num_modules \in InitialModules,
          dt \in ClockSteps, collide \in BOOLEAN, fault \in FaultPoints :
          SubmitCreateProject(new_name, new_type, num_modules, dt, collide, fault)
    \/ \E f \in 1..Len(CsvFiles), dt \in ClockSteps, fault \in FaultPoints :
          SubmitUploadCsv(f, dt, fault)
    \/ \E k \in Buttons, i \in 1..MaxEvents, dt \in ClockSteps, fault \in FaultPoints :
          PressProjectButton(k, i, dt, fault)
    \/ \E nm \in CreateNames \cup {"P2"}, g \in TrackedGateways, k \in 1..Len(MasterChecklist),
          status \in StatusOptions, fault \in FaultPoints :
          EditDeliverable(nm, g, k, status, fault)

SpecApp == InitApp /\ [][NextApp]_vars

\* ------------------------------------------------------------------------
\* utils.calculate_project_readiness
\* ------------------------------------------------------------------------

\* str() of a natural number.
RECURSIVE IntText(_)
IntText(n) == IF n < 10 THEN <<DigitChar(n)>> ELSE IntText(n \div 10) \o <<DigitChar(n % 10)>>

\* The keys of actuals_map: the gateways of the project's rows of the gateways
\* table whose actual_date is truthy.
ActualsMapKeys(file, project_id) ==
    {r.gateway : r \in {x \in file.gateways :
                           /\ x.entity_type = "project"
                           /\ x.entity_id = project_id
                           /\ Truthy(x.actual_date)}}

\* active_stages: ['D0'], then every gateway of actuals_map not yet in it.
ActiveStagesOf(keys) ==
    LET Reached(g) == g \in keys /\ g # "D0" IN <<"D0">> \o SelectSeq(GW, Reached)

\* delivs: the rows of the query on project_deliverables.
SelectedDeliverables(file, project_id, active_stages) ==
    {r \in file.project_deliverables :
        /\ r.project_id = project_id
        /\ \E n \in 1..Len(active_stages) : r.gateway_stage = active_stages[n]}

\* `if d['status'] in ['Completed', 'NA', 'N/A']`
AchievedStatuses == {"Completed", "NA", "N/A"}

\* The mutant of Score: no guard for total_items = 0, where nothing is missing.
Score_unguarded(achieved_items, total_items) ==
    IF total_items > 0 THEN [num |-> achieved_items * 100, den |-> total_items]
    ELSE [num |-> 100, den |-> 1]

\* score: (achieved_items / total_items) * 100, or 0.0; the quotient is kept
\* as a fraction, num over den.
Score(achieved_items, total_items) ==
    IF total_items > 0 THEN [num |-> achieved_items * 100, den |-> total_items]
    ELSE [num |-> 0, den |-> 1]

\* summary: f"{achieved_items}/{total_items} Items"
Summary(achieved_items, total_items) ==
    IntText(achieved_items) \o <<"/">> \o IntText(total_items)
      \o <<" ", "I", "t", "e", "m", "s">>

\* What the function returns for the counts.
Scored(achieved_items, total_items) ==
    [score |-> Score(achieved_items, total_items),
     summary |-> Summary(achieved_items, total_items)]

\* The mutant of CountAchieved: only Completed counts.
CountAchieved_completed(delivs) == Scored(Cardinality({d \in delivs : d.status = "Completed"}), Cardinality(delivs))

\* `for d in delivs`: the rows counted.
CountAchieved(delivs) ==
    Scored(Cardinality({d \in delivs : d.status \in AchievedStatuses}), Cardinality(delivs))

\* calculate_project_readiness(project_id) on the file db; the queries do not
\* raise on the tables of the application.
calculate_project_readiness(file, project_id) ==
    CountAchieved(SelectedDeliverables(file, project_id,
                      ActiveStagesOf(ActualsMapKeys(file, project_id))))

\* ------------------------------------------------------------------------
\* The readiness score on persisted projects
\* ------------------------------------------------------------------------

\* The gateways that the module of the project has reached, one of these sets.
ReachedSets == {{}, {"D0"}, {"D1"}, {"D0", "D1"}}

\* A project id that no project has.
UnknownId == 7

\* A project as the create dialog makes it and the views edit it: its module
\* has the actual DateA at the gateways reached, and its i-th deliverable the
\* status st[i].
EditedProject(pr, reached, st) ==
    [pr EXCEPT !.modules[1].gateways =
                  [g \in GWSet |-> IF g \in reached THEN SetKey(@[g], "a", DateA) ELSE @[g]],
               !.deliverables =
                  [i \in 1..Len(pr.deliverables) |-> SetKey(pr.deliverables[i], "status", st[i])]]

\* A session has created a project and edited it, and the last save has
\* committed it.
InitReadiness ==
    /\ StatusIdle /\ RollupIdle /\ ReadinessIdle /\ DashboardIdle /\ PopulateIdle /\ SessionsIdle /\ UploadIdle
    /\ \E new_type \in ProjectTypeSet, reached \in ReachedSets,
          st \in [1..Len(MasterChecklist) -> StatusOptions] :
       \E c \in {SaveCall(<<EditedProject(NewProj(ClockStart + 1, "P1", new_type, 1, FALSE),
                                           reached, st)>>, EmptyDb, 0)} :
          /\ db = c.file
          /\ projects = c.list
          /\ sv = c.rec
    /\ view = "Deliverables Tracker"
    /\ selected_types = {}
    /\ dialog = "none"
    /\ rerun = FALSE
    /\ clock = ClockStart + 1
    /\ events = 0
    /\ ld_fresh = FALSE

\* A view calls utils.calculate_project_readiness(project_id).
CallReadiness(project_id) ==
    /\ rd_project_id' = project_id
    /\ rd_result' = calculate_project_readiness(db, project_id)
    /\ UNCHANGED <<statusVars, rollupVars, appVars, dashboardVars, populateVars, sessionVars, uploadVars>>

NextReadiness == \E project_id \in {r.id : r \in db.projects} \cup {UnknownId} :
                    CallReadiness(project_id)

SpecReadiness == InitReadiness /\ [][NextReadiness]_vars

\* ------------------------------------------------------------------------
\* utils.calculate_dashboard_stats and the adherence rate of the Dashboard
\* ------------------------------------------------------------------------

\* `for gw in gw_keys`, from the i-th gateway on: latest holds
\* latest_released_gw, latest_actual and latest_plan, and every gateway whose
\* actual is truthy replaces the three.
RECURSIVE LatestReleased(_, _, _)
LatestReleased(p, i, latest) ==
    IF i > Len(GW) THEN latest
    ELSE LatestReleased(p, i + 1,
            IF Truthy(GwGet(p, GW[i], "a"))
            THEN [gw |-> GW[i], a |-> GwGet(p, GW[i], "a"), p |-> GwGet(p, GW[i], "p")]
            ELSE latest)

\* The mutant of latest_released: the first released gateway is kept.
latest_released_first(p) ==
    LET released == {i \in 1..Len(GW) : Truthy(GwGet(p, GW[i], "a"))}
    IN  IF released = {} THEN [gw |-> "None", a |-> NoneV, p |-> NoneV]
        ELSE LET i == CHOOSE j \in released : \A k \in released : j <= k
             IN  [gw |-> GW[i], a |-> GwGet(p, GW[i], "a"), p |-> GwGet(p, GW[i], "p")]

\* The three variables after the loop; they are None before it.
latest_released(p) == LatestReleased(p, 1, [gw |-> "None", a |-> NoneV, p |-> NoneV])

\* The mutant of p_status: the result of get_status is kept as it is.
p_status_uncoerced(latest) ==
    IF latest.gw # "None" /\ Truthy(latest.p)
    THEN get_status(latest.p, latest.a)
    ELSE "green"

\* p_status after line 313: 'green' unless a released gateway with a plan was
\* found, and 'green' for 'grey'.
p_status(latest) ==
    IF latest.gw # "None" /\ Truthy(latest.p)
    THEN IF get_status(latest.p, latest.a) = "grey" THEN "green"
         ELSE get_status(latest.p, latest.a)
    ELSE "green"

\* p_status of every project of the list, in list order.
Headlines(projs) == [i \in 1..Len(projs) |-> p_status(latest_released(projs[i]))]

\* calculate_dashboard_stats(projects): the dict returned.
calculate_dashboard_stats(projs) ==
    [total |-> Len(projs), active |-> Len(projs),
     green |-> Cardinality({i \in 1..Len(projs) : Headlines(projs)[i] = "green"}),
     yellow |-> Cardinality({i \in 1..Len(projs) : Headlines(projs)[i] = "yellow"}),
     red |-> Cardinality({i \in 1..Len(projs) : Headlines(projs)[i] = "red"})]

\* The (project, module, gateway) triples of the three nested loops whose
\* module actual is truthy: the triples that line 346 counts.
ReleasedPairs(projs) ==
    {t \in UNION {{i} \X (1..Len(projs[i].modules)) \X GWSet :
                     i \in {j \in 1..Len(projs) : "modules" \in DOMAIN projs[j]}} :
        Truthy(GwGet(projs[t[1]].modules[t[2]], t[3], "a"))}

\* `if p_date and a_date <= p_date` for one counted triple, the comparison
\* being that of two str values.
OnTrack(projs, t) ==
    /\ Truthy(GwGet(projs[t[1]], t[3], "p"))
    /\ ~StrGT(GwGet(projs[t[1]].modules[t[2]], t[3], "a"), GwGet(projs[t[1]], t[3], "p"))

\* The loop of lines 336-350 and the division of lines 353-356, the rate as
\* the fraction num / den.
adherence_rate(projs) ==
    LET on_track_gateways == Cardinality({t \in ReleasedPairs(projs) : OnTrack(projs, t)})
        total_released_gateways == Cardinality(ReleasedPairs(projs))
    IN  [on_track_gateways |-> on_track_gateways,
         total_released_gateways |-> total_released_gateways,
         adherence_rate |-> IF total_released_gateways > 0
                            THEN [num |-> on_track_gateways * 100,
                                  den |-> total_released_gateways]
                            ELSE [num |-> 0, den |-> 1]]

\* ------------------------------------------------------------------------
\* The Dashboard on bounded project lists
\* ------------------------------------------------------------------------

\* A release 90 days after DateA.
DateLate == isoformat(2024, 4, 9)

\* What a project holds as the plan of a gateway: no key (no element), '' or
\* a date.
PlanCells == {<<>>} \cup {<<x>> : x \in {EmptyStr, DateA}}

\* What the module of a project holds as the actual of a gateway.
ActCells == {<<x>> : x \in {EmptyStr, DateA, DateB, DateLate, DateNonCanonical, DateBad}}

\* The gateway without plan and actual, and the gateway with the D0 plan of
\* the create dialog.
BlankCell == <<<<EmptyStr>>, <<EmptyStr>>>>

\* The plans and actuals of the first project of the list, from D0 to D4.
FirstCells ==
    {<<c0, c1, c2, BlankCell, c4>> :
        c0 \in {<<<<D0Date>>, <<EmptyStr>>>>, <<<<D0Date>>, <<DateA>>>>},
        c1 \in PlanCells \X ActCells,
        c2 \in PlanCells \X ActCells,
        c4 \in {BlankCell, <<<<DateA>>, <<DateB>>>>}}

\* The plans and actuals of the second project.
SecondCells ==
    {<<<<<<D0Date>>, <<EmptyStr>>>>, c1, c2, BlankCell, BlankCell>> :
        c1 \in {<<EmptyStr>>, <<DateA>>} \X {<<EmptyStr>>, <<DateA>>, <<DateLate>>},
        c2 \in {<<EmptyStr>>, <<DateA>>} \X {<<EmptyStr>>, <<DateA>>, <<DateLate>>}}

GwIndex(g) == CHOOSE n \in 1..Len(GW) : GW[n] = g

\* A project as load_data hydrates it, with one module without sub-modules:
\* the project has the keys and plans of cells, its module the actuals.
DashProject(id, name, cells) ==
    [id |-> id, name |-> name, type |-> "Major",
     gateways |-> [g \in {GW[n] : n \in {k \in 1..Len(GW) : cells[k][1] # <<>>}} |->
                      [p |-> cells[GwIndex(g)][1][1], a |-> EmptyStr]],
     modules |-> <<[id |-> id + 1, name |-> "Module 1",
                    gateways |-> [g \in GWSet |->
                                    [p |-> EmptyStr, a |-> cells[GwIndex(g)][2][1],
                                     ecn |-> EmptyStr]],
                    sub_modules |-> <<>>]>>,
     deliverables |-> <<>>]

\* A script run has loaded two projects and renders the Dashboard with every
\* type selected: filtered_projects is the list load_data returned.
InitDashboard ==
    /\ StatusIdle /\ RollupIdle /\ AppIdle /\ ReadinessIdle /\ PopulateIdle /\ SessionsIdle /\ UploadIdle
    /\ \E c \in FirstCells, e \in SecondCells :
          ds_projects = calculate_rollup(<<DashProject(ClockStart, "P1", c),
                                           DashProject(ClockStart + 30, "P2", e)>>)
    /\ ds_pc = "stats"
    /\ ds_headlines = <<>>
    /\ ds_stats = NoStats
    /\ ds_rate = NoRate

\* Line 329: stats = utils.calculate_dashboard_stats(filtered_projects)
CallDashboardStats ==
    /\ ds_pc = "stats"
    /\ ds_headlines' = Headlines(ds_projects)
    /\ ds_stats' = calculate_dashboard_stats(ds_projects)
    /\ ds_pc' = "adherence"
    /\ UNCHANGED <<ds_projects, ds_rate>>
    /\ UNCHANGED <<statusVars, rollupVars, appVars, readinessVars, populateVars, sessionVars, uploadVars>>

\* Lines 333-356: the counters and adherence_rate.
ComputeAdherence ==
    /\ ds_pc = "adherence"
    /\ ds_rate' = adherence_rate(ds_projects)
    /\ ds_pc' = "done"
    /\ UNCHANGED <<ds_projects, ds_headlines, ds_stats>>
    /\ UNCHANGED <<statusVars, rollupVars, appVars, readinessVars, populateVars, sessionVars, uploadVars>>

NextDashboard == CallDashboardStats \/ ComputeAdherence

SpecDashboard == InitDashboard /\ [][NextDashboard]_vars

\* ------------------------------------------------------------------------
\* The rollup of a created project followed by its D0 badge
\* ------------------------------------------------------------------------

\* The mutant of gateway_status: plan and actual change places.
gateway_status_swapped(plan, actual) ==
    IF Truthy(actual) THEN get_status(actual, plan) ELSE "grey"

\* The badge of a gateway in the Dashboard table: status = "grey", and
\* utils.get_status(plan, actual) when the actual is truthy.
gateway_status(plan, actual) ==
    IF Truthy(actual) THEN get_status(plan, actual) ELSE "grey"

\* The D0 plans of the project and the D0 actuals of its module: '' and the
\* texts of the date widgets.
BadgePlans == {EmptyStr, D0Date, DateA}

BadgeActuals == {EmptyStr, isoformat(2024, 1, 5), isoformat(2024, 2, 15)} \cup GeneratedDates

\* The project of the create dialog with one module, the D0 plan plan and the
\* D0 actual act entered for the module.
BadgeProject(plan, act) ==
    [NewProj(ClockStart + 1, "P1", "Major", 1, FALSE) EXCEPT
        !.gateways = SetKey(@, "D0", SetKey(@["D0"], "p", plan)),
        !.modules[1].gateways = SetKey(@, "D0", SetKey(@["D0"], "a", act))]

InitBadge ==
    /\ StatusIdle /\ AppIdle /\ ReadinessIdle /\ DashboardIdle /\ PopulateIdle /\ SessionsIdle /\ UploadIdle
    /\ \E plan \in BadgePlans, act \in BadgeActuals :
          rl_projects = <<BadgeProject(plan, act)>>
    /\ rl_prev = <<>>
    /\ rl_calls = 0

\* The Dashboard table classifies the D0 gateway of the rolled-up project.
ClassifyD0 ==
    /\ rl_calls > 0 /\ st_result = NotCalled
    /\ st_plan' = GwGet(rl_projects[1], "D0", "p")
    /\ st_actual' = GwGet(rl_projects[1], "D0", "a")
    /\ st_result' = gateway_status(GwGet(rl_projects[1], "D0", "p"),
                                   GwGet(rl_projects[1], "D0", "a"))
    /\ UNCHANGED <<rollupVars, appVars, readinessVars, dashboardVars, populateVars, sessionVars, uploadVars>>

NextBadge == CallRollup \/ ClassifyD0

SpecBadge == InitBadge /\ [][NextBadge]_vars

\* ------------------------------------------------------------------------
\* populate_deliverables on bounded checklists
\* ------------------------------------------------------------------------

\* The rows of a checklist file, at most.
MaxRows == 2

\* The rows a checklist file can hold.
ChecklistRows ==
    [Gateway : {"D0", "D1"}, Delivarables : {"Project Charter", "Prototype Report"},
     Major : {"YES", "Yes", "NO"}, Minor : {"YES", "NO"}]

\* The checklist files: none, or one of at most MaxRows rows.
ChecklistFiles ==
    {<<>>} \cup {<<df>> : df \in UNION {[1..n -> ChecklistRows] : n \in 0..MaxRows}}

\* The types of the create dialog and the type process_csv_upload gives a
\* project without a Type cell.
PopulateTypes == ProjectTypeSet \cup {"New"}

InitPopulate ==
    /\ StatusIdle /\ RollupIdle /\ AppIdle /\ ReadinessIdle /\ DashboardIdle /\ SessionsIdle /\ UploadIdle
    /\ pd_csv \in ChecklistFiles
    /\ pd_type \in PopulateTypes
    /\ pd_result = <<>>
    /\ pd_called = FALSE

\* utils.populate_deliverables(project_id, project_type)
CallPopulate(ms, collide) ==
    /\ ~pd_called
    /\ pd_result' = PopulateFrom(pd_csv, pd_type, ms, collide)
    /\ pd_called' = TRUE
    /\ UNCHANGED <<pd_csv, pd_type>>
    /\ UNCHANGED <<statusVars, rollupVars, appVars, readinessVars, dashboardVars, sessionVars, uploadVars>>

NextPopulate == \E collide \in BOOLEAN : CallPopulate(ClockStart * 1000, collide)

SpecPopulate == InitPopulate /\ [][NextPopulate]_vars

\* ------------------------------------------------------------------------
\* Two sessions on one project_tracker.db
\* ------------------------------------------------------------------------

\* Each browser session runs app.py in its own thread on the same file.
Sessions == {"A", "B"}

\* datetime.now(), in seconds, at the edit of each session.
SessionClock(s) == IF s = "A" THEN ClockStart + 30 ELSE ClockStart + 60

\* The edits of a session: the create dialog, a status of the Deliverables
\* Tracker, and the two buttons of a project in the Detailed Project View.
SessionEditKinds == {"create", "status", "add_module", "delete_project"}

\* One session has created a project and edited it, and its last save has
\* committed it; two sessions are about to run the script.
InitSessions ==
    /\ StatusIdle /\ RollupIdle /\ ReadinessIdle /\ DashboardIdle /\ PopulateIdle /\ UploadIdle
    /\ \E new_type \in ProjectTypeSet, reached \in ReachedSets :
       \E c \in {SaveCall(<<EditedProject(NewProj(ClockStart + 1, "P1", new_type, 1, FALSE),
                                           reached,
                                           [i \in 1..Len(MasterChecklist) |-> "Pending"])>>,
                          EmptyDb, 0)} :
          /\ db = c.file
          /\ projects = c.list
          /\ sv = c.rec
    /\ view = "Dashboard"
    /\ selected_types = {}
    /\ dialog = "none"
    /\ rerun = FALSE
    /\ clock = ClockStart + 1
    /\ events = 0
    /\ ld_fresh = FALSE
    /\ cs_pc = [s \in Sessions |-> "start"]
    /\ cs_loaded = [s \in Sessions |-> [at |-> 0, ok |-> FALSE]]
    /\ cs_lists = [s \in Sessions |-> <<>>]
    /\ cs_edits = [s \in Sessions |-> "none"]
    /\ cs_results = [s \in Sessions |-> NotCalled]
    /\ cs_order = <<>>

\* `projects = utils.load_data()` of a script run of session s.  A load that
\* raises (the file is locked or cannot be read) returns [].
SessionLoad(s, fault) ==
    /\ cs_pc[s] = "start"
    /\ cs_pc' = [cs_pc EXCEPT ![s] = "loaded"]
    /\ cs_loaded' = [cs_loaded EXCEPT ![s] = [at |-> Len(cs_order), ok |-> ~fault]]
    /\ cs_lists' = [cs_lists EXCEPT ![s] = IF fault THEN <<>> ELSE load_data(db)]
    /\ UNCHANGED <<cs_edits, cs_results, cs_order>>
    /\ UNCHANGED <<statusVars, rollupVars, appVars, readinessVars, dashboardVars, populateVars, uploadVars>>

\* The handler of session s changes its list, before its save_data call.
\* Session A sets the status of the first deliverable, session B of the last.
SessionEdit(s, e) ==
    LET list == cs_lists[s]
        w == Widget(e, 1, 0, 0, "D0", FALSE)
        Edited ==
            IF e = "create"
            THEN Append(list, NewProj(SessionClock(s), "P" \o s, ProjectTypes[1], 0, FALSE))
            ELSE IF e = "status"
            THEN StoreStatus(list, 1,
                             list[1].deliverables[IF s = "A" THEN 1
                                                  ELSE Len(list[1].deliverables)],
                             "Completed")
            ELSE IF e = "add_module"
            THEN EditAddModule(list, w, SessionClock(s) * 1000).list
            ELSE EditDeleteProject(list, w).list
    IN  /\ cs_pc[s] = "loaded"
        /\ e = "create" \/ Len(list) > 0
        /\ e = "status" => Len(list[1].deliverables) > 0
        /\ cs_pc' = [cs_pc EXCEPT ![s] = "edited"]
        /\ cs_lists' = [cs_lists EXCEPT ![s] = Edited]
        /\ cs_edits' = [cs_edits EXCEPT ![s] = e]
        /\ UNCHANGED <<cs_loaded, cs_results, cs_order>>
        /\ UNCHANGED <<statusVars, rollupVars, appVars, readinessVars, dashboardVars, populateVars, uploadVars>>

\* The handler of session s calls utils.save_data(projects).  The first DELETE
\* opens a transaction that holds the write lock of the file until
\* conn.commit(), so the statements of two calls do not interleave: the call
\* that comes second waits for the commit of the first.
SessionSave(s) ==
    /\ cs_pc[s] = "edited"
    /\ \E r \in {save_data(cs_lists[s], db, 0)} :
          /\ db' = r.db
          /\ cs_lists' = [cs_lists EXCEPT ![s] = r.projects]
          /\ cs_results' = [cs_results EXCEPT ![s] = r.result]
    /\ cs_pc' = [cs_pc EXCEPT ![s] = "saved"]
    /\ cs_order' = Append(cs_order, s)
    /\ UNCHANGED <<cs_loaded, cs_edits>>
    /\ UNCHANGED <<projects, view, selected_types, dialog, rerun, clock, events, sv, ld_fresh>>
    /\ UNCHANGED <<statusVars, rollupVars, readinessVars, dashboardVars, populateVars, uploadVars>>

NextSessions ==
    \/ \E s \in Sessions, fault \in BOOLEAN : SessionLoad(s, fault)
    \/ \E s \in Sessions, e \in SessionEditKinds : SessionEdit(s, e)
    \/ \E s \in Sessions : SessionSave(s)

SpecSessions == InitSessions /\ [][NextSessions]_vars

\* ------------------------------------------------------------------------
\* The upload dialog on bounded lists and files
\* ------------------------------------------------------------------------

\* "Process Upload" is pressed at most MaxUploads times.
MaxUploads == 2

\* process_csv_upload(csv_file, current_projects) for a file of rows whose
\* cells are in the columns of D0..D3.  With dup the header holds the column
\* "D4_Act" twice once df.columns.str.strip() has run: row.get returns a
\* Series for it, and `pd.isna(val) or val == ""` raises ValueError in the
\* gateway loop of the first row that names a module, after the row has been
\* merged.  The handler returns the list, which was updated in place, and the
\* message.
UploadOutcome(file, current_projects, ms) ==
    LET rows == file.rows
        Named(i) == rows[i].project # "" /\ rows[i].module # ""
        k == IF file.dup /\ \E i \in 1..Len(rows) : Named(i)
             THEN CHOOSE i \in 1..Len(rows) : Named(i) /\ \A j \in 1..(i - 1) : ~Named(j)
             ELSE 0
    IN  IF k # 0
        THEN [list |-> process_csv_upload(SubSeq(rows, 1, k), current_projects, ms),
              msg |-> "Error processing CSV"]
        ELSE [list |-> process_csv_upload(rows, current_projects, ms), msg |-> "Success"]

\* A module as the Detailed Project View keeps it, with nsubs sub-modules
\* named S1.
UploadModule(id, name, nsubs) ==
    [id |-> id, name |-> name,
     gateways |-> [g \in GWSet |-> IF g = "D0" /\ nsubs = 0
                                   THEN [GwDefaults EXCEPT !.a = DateA] ELSE GwDefaults],
     sub_modules |-> [j \in 1..nsubs |->
                        [id |-> id + j, name |-> "S1",
                         gateways |-> [g \in GWSet |-> GwDefaults]]]]

\* The module lists: none, one module, a module with two sub-modules of one
\* name, and two modules of one name or of two.
UploadModuleLists ==
    { <<>>,
      <<UploadModule(10, "M1", 0)>>,
      <<UploadModule(10, "M1", 2)>>,
      <<UploadModule(10, "M1", 0), UploadModule(20, "M1", 1)>>,
      <<UploadModule(10, "M2", 0), UploadModule(20, "M1", 1)>> }

UploadProject(id, name, mods) ==
    [id |-> id, name |-> name, type |-> "Minor",
     gateways |-> [g \in GWSet |-> IF g = "D0" THEN [p |-> D0Date, a |-> EmptyStr]
                                    ELSE [p |-> EmptyStr, a |-> EmptyStr]],
     modules |-> mods, deliverables |-> <<>>]

\* The lists: no project, one, and two of one name or of two.
UploadLists ==
    {<<>>}
      \cup {<<UploadProject(1, "P1", mods)>> : mods \in UploadModuleLists}
      \cup {<<UploadProject(1, "P1", mods), UploadProject(2, "P1", <<>>)>> :
               mods \in UploadModuleLists}
      \cup {<<UploadProject(1, "P2", <<>>), UploadProject(2, "P1", mods)>> :
               mods \in UploadModuleLists}

\* The rows: a type and a plan of a project, a module, a sub-module under its
\* parent, and a module of another project.
UploadRows ==
    { CsvRow("P1", "Major", "", "", "D1", DateA, EmptyStr, EmptyStr),
      CsvRow("P1", "", "M1", "", "D0", EmptyStr, DateB, EcnText),
      CsvRow("P1", "", "S1", "M1", "D0", EmptyStr, DateA, EmptyStr),
      CsvRow("P3", "", "M1", "", "D0", D0Date, EmptyStr, EmptyStr) }

\* The files: one or two rows, in every order, under either header.
UploadFiles ==
    [rows : UNION {[1..n -> UploadRows] : n \in 1..2}, dup : BOOLEAN]

\* A list has been saved, a script run has loaded it, and the upload dialog
\* is open with a file chosen.
InitUpload ==
    /\ StatusIdle /\ RollupIdle /\ ReadinessIdle /\ DashboardIdle /\ PopulateIdle
    /\ SessionsIdle
    /\ \E L \in UploadLists :
       \E c \in {SaveCall(L, EmptyDb, 0)} :
          /\ db = c.file
          /\ projects = load_data(c.file)
          /\ sv = c.rec
    /\ view = "Detailed Project View"
    /\ selected_types = {}
    /\ dialog = "upload"
    /\ rerun = FALSE
    /\ clock = ClockStart
    /\ events = 0
    /\ ld_fresh = TRUE
    /\ up_file \in UploadFiles
    /\ up_prev = <<>>
    /\ up_out = <<>>
    /\ up_msg = NotCalled
    /\ up_calls = 0

\* modal_upload_csv, "Process Upload" pressed on the file, or on the file
\* with its header corrected: the merged list is saved if the message is
\* "Success", and the run that st.rerun() starts loads the file (the dialog is
\* then opened again); after another message the dialog stays open on the list
\* as process_csv_upload left it.
SubmitUpload(corrected, dt) ==
    /\ up_calls < MaxUploads
    /\ \E r \in {UploadOutcome([up_file EXCEPT !.dup = @ /\ ~corrected], projects,
                               (clock + dt) * 1000)} :
          /\ up_out' = r.list
          /\ up_msg' = r.msg
          /\ IF r.msg = "Success"
             THEN \E c \in {SaveCall(r.list, db, 0)} :
                     /\ db' = c.file
                     /\ sv' = c.rec
                     /\ projects' = IF c.rec.result = "True" THEN load_data(c.file) ELSE c.list
             ELSE /\ projects' = r.list
                  /\ UNCHANGED <<db, sv>>
    /\ up_prev' = projects
    /\ up_calls' = up_calls + 1
    /\ clock' = clock + dt
    /\ events' = events + 1
    /\ UNCHANGED <<up_file, view, selected_types, dialog, rerun, ld_fresh>>
    /\ UNCHANGED <<statusVars, rollupVars, readinessVars, dashboardVars, populateVars, sessionVars>>

NextUpload == \E corrected \in BOOLEAN : SubmitUpload(corrected, 1)

SpecUpload == InitUpload /\ [][NextUpload]_vars

\* ------------------------------------------------------------------------
\* The buttons of a module in the Detailed Project View
\* ------------------------------------------------------------------------

\* The actuals a sub-module can hold at D0.
SubActuals == {EmptyStr, DateA, DateB, DateNonCanonical}

\* A module with the actual own at D0 and D4 and one sub-module for every
\* element of acts, which holds that actual at D0.
ModuleWithSubs(own, acts) ==
    [id |-> 10, name |-> "Module 1",
     gateways |-> [g \in GWSet |-> IF g \in {"D0", "D4"}
                                   THEN [GwDefaults EXCEPT !.a = own] ELSE GwDefaults],
     sub_modules |-> [j \in 1..Len(acts) |->
                        [id |-> 10 + j, name |-> "New Part",
                         gateways |-> [g \in GWSet |->
                             IF g = "D0" THEN [GwDefaults EXCEPT !.a = acts[j]]
                             ELSE GwDefaults]]]]

\* A project with one module has been saved, and the Detailed Project View
\* shows it.
InitModule ==
    /\ StatusIdle /\ RollupIdle /\ ReadinessIdle /\ DashboardIdle /\ PopulateIdle
    /\ SessionsIdle /\ UploadIdle
    /\ \E own \in {EmptyStr, DateA}, acts \in UNION {[1..n -> SubActuals] : n \in 0..2} :
       \E c \in {SaveCall(<<UploadProject(1, "P1", <<ModuleWithSubs(own, acts)>>)>>,
                          EmptyDb, 0)} :
          /\ db = c.file
          /\ projects = c.list
          /\ sv = c.rec
    /\ view = "Detailed Project View"
    /\ selected_types = {"Minor"}
    /\ dialog = "none"
    /\ rerun = FALSE
    /\ clock = ClockStart
    /\ events = 0
    /\ ld_fresh = FALSE

\* The "Sub" button of the mi-th module of the first project is pressed, or
\* the delete button of its si-th sub-module: the run loads, renders the
\* widgets above the button, and reaches it.
PressModuleButton(k, mi, si, dt) ==
    /\ view = "Detailed Project View" /\ ~rerun /\ events < MaxEvents
    /\ Len(projects) > 0
    /\ mi \in 1..Len(projects[1].modules)
    /\ k = "delete_sub" => si \in 1..Len(SubsOf(projects[1].modules[mi]))
    /\ k = "add_sub" => si = 0
    /\ \E rs \in {RunDetailed(db, selected_types,
                              Widget(k, projects[1].id, projects[1].modules[mi].id,
                                     IF si = 0 THEN 0
                                     ELSE SubsOf(projects[1].modules[mi])[si].id, "", FALSE),
                              (clock + dt) * 1000, 0)} : EndDetailed(rs)
    /\ dialog' = "none"
    /\ clock' = clock + dt
    /\ events' = events + 1
    /\ UNCHANGED <<view, selected_types>>
    /\ UNCHANGED <<statusVars, rollupVars, readinessVars, dashboardVars, populateVars, sessionVars, uploadVars>>

NextModule ==
    \/ \E k \in ModuleButtons, si \in 0..2 : PressModuleButton(k, 1, si, 1)
    \/ RunScript("none")

SpecModule == InitModule /\ [][NextModule]_vars

\* ------------------------------------------------------------------------
\* C1
\* ------------------------------------------------------------------------

\* The calendar, written out: the days of each month of year y.
OracleMonthLengths(y) ==
    <<31, IF y % 400 = 0 \/ (y % 4 = 0 /\ y % 100 # 0) THEN 29 ELSE 28,
      31, 30, 31, 30, 31, 31, 30, 31, 30, 31>>

OracleYears == (BaseYear - 1)..(BaseYear + MaxYearSpan + 1)

\* Every calendar date <<y, m, d>> of the oracle's years.
OracleDates ==
    {t \in OracleYears \X (1..12) \X (1..31) : t[3] <= OracleMonthLengths(t[1])[t[2]]}

\* The texts that denote date t in year-month-day order: the year in four
\* digits, month and day in two digits or without the leading zero (the day
\* also with a space for it).
OracleTexts(t) ==
    LET ys == {Pad4(t[1])}
        ms == {Pad2(t[2])} \cup (IF t[2] < 10 THEN {<<DigitChar(t[2])>>} ELSE {})
        ds == {Pad2(t[3])} \cup
              (IF t[3] < 10 THEN {<<DigitChar(t[3])>>, <<" ", DigitChar(t[3])>>} ELSE {})
    IN  {y \o <<"-">> \o m \o <<"-">> \o d : y \in ys, m \in ms, d \in ds}

OraclePairs == UNION {{<<x, t>> : x \in OracleTexts(t)} : t \in OracleDates}

OracleValidTexts == {pr[1] : pr \in OraclePairs}

OracleTable == [x \in OracleValidTexts |-> (CHOOSE pr \in OraclePairs : pr[1] = x)[2]]

OracleDateOf(s) == OracleTable[s]

\* t comes before u in the calendar.
OracleBefore(t, u) ==
    \/ t[1] < u[1]
    \/ t[1] = u[1] /\ t[2] < u[2]
    \/ t[1] = u[1] /\ t[2] = u[2] /\ t[3] < u[3]

\* The whole days from date t to date u, counted one by one (negative when u
\* is the earlier).
OracleDays(t, u) ==
    Cardinality({x \in OracleDates : OracleBefore(t, x) /\ ~OracleBefore(u, x)})
      - Cardinality({x \in OracleDates : OracleBefore(u, x) /\ ~OracleBefore(t, x)})

\* The status C1 states for (plan, actual).
C1_Expected(plan, actual) ==
    IF plan \in {NoneV, EmptyStr} \/ actual \in {NoneV, EmptyStr} THEN "grey"
    ELSE IF plan \notin OracleValidTexts \/ actual \notin OracleValidTexts THEN "grey"
    ELSE LET diff == OracleDays(OracleDateOf(plan), OracleDateOf(actual))
         IN  IF diff <= 0 THEN "green"
             ELSE IF diff <= 30 THEN "yellow"
             ELSE "red"

\* C1: for every pair (plan, actual), get_status returns one of the four
\* colours and never raises; it returns grey iff plan or actual is empty or
\* does not denote a calendar date in year-month-day form, and otherwise green
\* for actual - plan <= 0 days, yellow for 1..30 days and red for 31 or more.
C1_GetStatusClassifies ==
    st_result # NotCalled =>
        /\ st_result \in {"grey", "green", "yellow", "red"}
        /\ st_result = C1_Expected(st_plan, st_actual)

\* The boundary case of C1: plan 2024-01-01, actual 2024-01-31, 30 days late.
C1_Witness ==
    /\ st_plan = isoformat(2024, 1, 1)
    /\ st_actual = isoformat(2024, 1, 31)
    /\ st_result = "yellow"

\* ------------------------------------------------------------------------
\* C2, C3, C4
\* ------------------------------------------------------------------------

\* The non-empty actuals the entities of a list hold at gateway g.
ClaimActuals(ents, g) ==
    {v \in {GwGet(ents[j], g, "a") : j \in 1..Len(ents)} : v # NoneV /\ v # EmptyStr}

\* A text denotes a date when strptime's %Y-%m-%d reads it as one (C1).
ClaimDenotesDate(v) == v \in OracleValidTexts

\* held is the latest of the non-empty actuals S: one of them, and no actual
\* of S that denotes a date denotes a later date than held does.  A text that
\* denotes no date is compared with nothing.
ClaimIsLatest(held, S) ==
    /\ held \in S
    /\ ClaimDenotesDate(held) =>
          \A y \in S : ClaimDenotesDate(y) =>
              ~OracleBefore(OracleDateOf(held), OracleDateOf(y))

\* The derived value C2 and C3 state for a parent whose children hold the
\* non-empty actuals S: held is what the parent holds after the rollup.
ClaimDerived(held, S) ==
    IF S = {} THEN held \in {NoneV, EmptyStr} ELSE ClaimIsLatest(held, S)

\* The orderings of a list.
ClaimOrderings(seq) ==
    {[i \in 1..Len(seq) |-> seq[f[i]]] : f \in Permutations(1..Len(seq))}

\* C2: after calculate_rollup returns, every module that has sub-modules holds,
\* for every gateway, the latest non-empty actual of its sub-modules, or no
\* actual when they have none, whatever it held before and whatever the order
\* of its sub-modules.
C2_ModuleActualIsLatestOfSubs ==
    rl_calls >= 1 =>
        \A pi \in 1..Len(rl_projects) : \A mi \in 1..Len(rl_projects[pi].modules) :
            LET m == rl_projects[pi].modules[mi]
                before == rl_prev[pi].modules[mi]
            IN  SubsOf(m) # <<>> =>
                  /\ \A g \in GWSet :
                        ClaimDerived(GwGet(m, g, "a"), ClaimActuals(m.sub_modules, g))
                  /\ \A subs \in ClaimOrderings(before.sub_modules) :
                        RollupModule([before EXCEPT !.sub_modules = subs]).gateways
                          = m.gateways

\* C3: after calculate_rollup returns, every project holds, for every gateway,
\* the latest non-empty actual of its modules as pass 1 left them, or no actual
\* when no module has one or when there is no module.
C3_ProjectActualIsLatestOfModules ==
    rl_calls >= 1 =>
        \A pi \in 1..Len(rl_projects) : \A g \in GWSet :
            ClaimDerived(GwGet(rl_projects[pi], g, "a"),
                         ClaimActuals(rl_projects[pi].modules, g))

\* C4: a second calculate_rollup in a row changes nothing, at any level.
C4_RollupIdempotent == rl_calls >= 2 => rl_projects = rl_prev

\* The second call on a hierarchy whose first call had a stale module actual
\* to overwrite.
C4_Witness ==
    /\ rl_calls = 2
    /\ Len(rl_projects[1].modules) >= 1
    /\ \E g \in GWSet :
         /\ Len(SubsOf(rl_projects[1].modules[1])) = 2
         /\ GwGet(rl_projects[1].modules[1], g, "a") = DateA
         /\ GwGet(rl_projects[1], g, "a") = DateA

\* ------------------------------------------------------------------------
\* C5
\* ------------------------------------------------------------------------

\* The derived-field invariants on a list: for every gateway, every project
\* holds the latest of its modules' actuals and every module with sub-modules
\* the latest of its sub-modules' actuals.
ClaimDerivedAll(L) ==
    \A i \in 1..Len(L), g \in GWSet :
        /\ ClaimDerived(GwGet(L[i], g, "a"), ClaimActuals(L[i].modules, g))
        /\ \A mi \in 1..Len(L[i].modules) :
              SubsOf(L[i].modules[mi]) # <<>> =>
                 ClaimDerived(GwGet(L[i].modules[mi], g, "a"),
                              ClaimActuals(SubsOf(L[i].modules[mi]), g))

\* C5: whenever load_data has returned a hierarchy, and whenever save_data has
\* returned after persisting, the hierarchy in memory and the persisted
\* snapshot satisfy the derived-field invariants.
C5_DerivedFieldsHold ==
    /\ ld_fresh => ClaimDerivedAll(projects)
    /\ (sv.called /\ sv.result = "True") =>
          (ClaimDerivedAll(sv.arg) /\ ClaimDerivedAll(Hydrate(db)))

\* ------------------------------------------------------------------------
\* C6
\* ------------------------------------------------------------------------

\* The plan, actual or change note of an entity at a gateway, an absent record
\* or key read as empty.
ClaimCell(e, g, k) ==
    IF g \in DOMAIN e.gateways /\ k \in DOMAIN e.gateways[g] THEN e.gateways[g][k] ELSE EmptyStr

ClaimModulesOf(pr) == {pr.modules[mi] : mi \in 1..Len(pr.modules)}

ClaimSubsOf(m) == {SubsOf(m)[si] : si \in 1..Len(SubsOf(m))}

ClaimDeliverablesOf(pr) ==
    IF "deliverables" \in DOMAIN pr
    THEN {pr.deliverables[j] : j \in 1..Len(pr.deliverables)} ELSE {}

ClaimProjectsIn(L) == {L[i] : i \in 1..Len(L)}

ClaimNodesIn(L) ==
    UNION {ClaimModulesOf(pr) \cup UNION {ClaimSubsOf(m) : m \in ClaimModulesOf(pr)} :
              pr \in ClaimProjectsIn(L)}

\* What a hierarchy holds, its order aside: the projects, the nesting of
\* modules and sub-modules, the gateway cells and the deliverables.
ClaimTree(L) ==
    [projects |-> {<<pr.id, pr.name, pr.type>> : pr \in ClaimProjectsIn(L)},
     project_cells |->
        {<<pr.id, g, ClaimCell(pr, g, "p"), ClaimCell(pr, g, "a")>> :
            pr \in ClaimProjectsIn(L), g \in GWSet},
     modules |->
        UNION {{<<pr.id, m.id, m.name>> : m \in ClaimModulesOf(pr)} : pr \in ClaimProjectsIn(L)},
     sub_modules |->
        UNION {UNION {{<<pr.id, m.id, s.id, s.name>> : s \in ClaimSubsOf(m)} :
                         m \in ClaimModulesOf(pr)} : pr \in ClaimProjectsIn(L)},
     node_cells |->
        {<<n.id, g, ClaimCell(n, g, "p"), ClaimCell(n, g, "a"), ClaimCell(n, g, "ecn")>> :
            n \in ClaimNodesIn(L), g \in GWSet},
     deliverables |->
        UNION {{<<pr.id, d.id, d.gateway_stage, d.deliverable_name, d.status,
                  d.evidence_link, d.remarks>> : d \in ClaimDeliverablesOf(pr)} :
                  pr \in ClaimProjectsIn(L)}]

\* Every row of the file belongs to an entity of the list, and no entity has
\* two rows for a gateway.
ClaimNoLeftover(file, L) ==
    /\ {r.id : r \in file.projects} = {pr.id : pr \in ClaimProjectsIn(L)}
    /\ {r.id : r \in file.modules} = {n.id : n \in ClaimNodesIn(L)}
    /\ {r.id : r \in file.project_deliverables} =
          UNION {{d.id : d \in ClaimDeliverablesOf(pr)} : pr \in ClaimProjectsIn(L)}
    /\ \A r \in file.gateways :
          \/ r.entity_type = "project" /\ r.entity_id \in {pr.id : pr \in ClaimProjectsIn(L)}
          \/ r.entity_type = "module" /\ r.entity_id \in {n.id : n \in ClaimNodesIn(L)}
    /\ \A r1, r2 \in file.gateways :
          (r1.entity_type = r2.entity_type /\ r1.entity_id = r2.entity_id
             /\ r1.gateway = r2.gateway) => r1 = r2

C7_FailedSaveLeavesFile == (sv.called /\ sv.raised) => db = sv.before

\* A save failed at an INSERT, after the deletes and an insert had run on a
\* file that held projects.
C7_Witness ==
    /\ sv.called /\ sv.raised
    /\ sv.at > Len(DeleteStmts) + 1
    /\ sv.before.projects # {}
    /\ db.projects # {}

\* ------------------------------------------------------------------------
\* C8
\* ------------------------------------------------------------------------

\* C8: save_data returns True exactly when the snapshot was committed, and
\* False whenever a step raised.
C8_SaveReportsOutcome ==
    sv.called =>
        /\ sv.result = "True" <=> ~sv.raised
        /\ sv.raised => sv.result = "False"

\* ------------------------------------------------------------------------
\* C9 and C10
\* ------------------------------------------------------------------------

\* The active stages of a project: D0, and every gateway whose persisted
\* project-level actual is not empty.
ClaimActive(pid) ==
    {"D0"} \cup {g \in GWSet : \E r \in db.gateways :
                    /\ r.entity_type = "project" /\ r.entity_id = pid /\ r.gateway = g
                    /\ r.actual_date \notin {NoneV, EmptyStr}}

\* The deliverables of the project gated on an active stage.
ClaimSelected(pid) ==
    {r \in db.project_deliverables : r.project_id = pid /\ r.gateway_stage \in ClaimActive(pid)}

ClaimAchieved(pid) == {r \in ClaimSelected(pid) : r.status \in {"Completed", "NA"}}

\* The text "achieved/total" (of counts below ten), followed by " Items".
ClaimSummary(a, t) == <<DigitChar(a), "/", DigitChar(t), " ", "I", "t", "e", "m", "s">>

ClaimErrorText == <<"E", "r", "r", "o", "r">>

ClaimReleased(p) ==
    {i \in 1..Len(GW) : GwGet(p, GW[i], "a") # NoneV /\ GwGet(p, GW[i], "a") # EmptyStr}

\* The highest-indexed released gateway of p, which has one.
ClaimLatest(p) == CHOOSE i \in ClaimReleased(p) : \A j \in ClaimReleased(p) : j <= i

\* The headline the claim gives project p.
ClaimHeadline(p) ==
    IF ClaimReleased(p) = {} THEN "green"
    ELSE IF get_status(GwGet(p, GW[ClaimLatest(p)], "p"),
                       GwGet(p, GW[ClaimLatest(p)], "a")) = "grey" THEN "green"
    ELSE get_status(GwGet(p, GW[ClaimLatest(p)], "p"), GwGet(p, GW[ClaimLatest(p)], "a"))

\* C11: once calculate_dashboard_stats has returned, the headline of every
\* project of the list is on-track when no gateway of the project has a
\* non-empty actual, and otherwise the get_status class of the plan and actual
\* of its highest-indexed gateway with a non-empty actual, pending read as
\* on-track; it is one of on-track (green), at-risk (yellow) and delay (red),
\* and the counters returned count these headlines.
C11_HeadlineIsLatestGateway ==
    ds_pc \in {"adherence", "done"} =>
        /\ Len(ds_headlines) = Len(ds_projects)
        /\ \A i \in 1..Len(ds_projects) :
              /\ ds_headlines[i] = ClaimHeadline(ds_projects[i])
              /\ ds_headlines[i] \in {"green", "yellow", "red"}
        /\ \A c \in {"green", "yellow", "red"} :
              ds_stats[c] = Cardinality({i \in 1..Len(ds_projects) :
                                            ClaimHeadline(ds_projects[i]) = c})

\* The call has returned for a list whose first project has released D2 last,
\* with a plan and an actual that is no date (pending, read as on-track), and
\* whose second project has released D2 last, 90 days after its plan.
C11_Witness ==
    /\ ds_pc = "done"
    /\ ClaimReleased(ds_projects[1]) = {2, 3}
    /\ GwGet(ds_projects[1], "D2", "a") = DateBad
    /\ GwGet(ds_projects[1], "D2", "p") = DateA
    /\ ds_headlines[1] = "green"
    /\ ClaimReleased(ds_projects[2]) = {3}
    /\ ds_headlines[2] = "red"

\* ------------------------------------------------------------------------
\* C12
\* ------------------------------------------------------------------------

\* Projects p and q have released the same gateway last, with the same plan
\* and the same actual on it.
ClaimSameLatest(p, q) ==
    /\ ClaimReleased(p) # {} /\ ClaimReleased(q) # {}
    /\ ClaimLatest(p) = ClaimLatest(q)
    /\ GwGet(p, GW[ClaimLatest(p)], "p") = GwGet(q, GW[ClaimLatest(q)], "p")
    /\ GwGet(p, GW[ClaimLatest(p)], "a") = GwGet(q, GW[ClaimLatest(q)], "a")

\* Project p released D1 90 days after its plan and D2, its last released
\* gateway, on the day planned.
ClaimLateThenOnTime(p) ==
    /\ GwGet(p, "D1", "p") = DateA /\ GwGet(p, "D1", "a") = DateLate
    /\ ClaimReleased(p) # {} /\ GW[ClaimLatest(p)] = "D2"
    /\ GwGet(p, "D2", "p") = DateA /\ GwGet(p, "D2", "a") = DateA

\* C12: once calculate_dashboard_stats has returned, two projects of the list
\* with the same last released gateway and the same plan and actual on it
\* have the same headline, whatever their earlier gateways hold; a project
\* with D1 released 90 days late and D2 released last and on time is on-track.
C12_HeadlineIgnoresHistory ==
    ds_pc \in {"adherence", "done"} =>
        /\ \A i, j \in 1..Len(ds_projects) :
              ClaimSameLatest(ds_projects[i], ds_projects[j])
                  => ds_headlines[i] = ds_headlines[j]
        /\ \A i \in 1..Len(ds_projects) :
              ClaimLateThenOnTime(ds_projects[i]) => ds_headlines[i] = "green"

\* The call has returned for two projects that released D2 last with the same
\* plan and actual: the first released D1 90 days late, the second has not
\* released D1.
C12_Witness ==
    /\ ds_pc = "done"
    /\ ClaimSameLatest(ds_projects[1], ds_projects[2])
    /\ ClaimLateThenOnTime(ds_projects[1])
    /\ ClaimReleased(ds_projects[2]) = {3}
    /\ ds_headlines[1] = "green" /\ ds_headlines[2] = "green"

\* ------------------------------------------------------------------------
\* C13
\* ------------------------------------------------------------------------

\* The (project, top-level module, gateway) triples of a list in which the
\* module has a non-empty actual.
ClaimReleasedPairs(projs) ==
    {t \in (1..Len(projs)) \X (1..MaxNodes) \X GWSet :
        /\ t[2] <= Len(projs[t[1]].modules)
        /\ GwGet(projs[t[1]].modules[t[2]], t[3], "a") # NoneV
        /\ GwGet(projs[t[1]].modules[t[2]], t[3], "a") # EmptyStr}

\* The actual a is on or before the plan p: both denote dates, and the date
\* of p is not before the date of a.
ClaimOnOrBefore(a, p) ==
    /\ ClaimDenotesDate(a) /\ ClaimDenotesDate(p)
    /\ ~OracleBefore(OracleDateOf(p), OracleDateOf(a))

\* The triples of the numerator: the owning project's plan for the gateway is
\* non-empty and the module's actual is on or before it.
ClaimOnTrackPairs(projs) ==
    {t \in ClaimReleasedPairs(projs) :
        /\ GwGet(projs[t[1]], t[3], "p") # NoneV
        /\ GwGet(projs[t[1]], t[3], "p") # EmptyStr
        /\ ClaimOnOrBefore(GwGet(projs[t[1]].modules[t[2]], t[3], "a"),
                           GwGet(projs[t[1]], t[3], "p"))}

\* C13: once the Dashboard has computed the adherence rate, its denominator
\* is the number of (top-level module, gateway) pairs of the list in which the
\* module has a non-empty actual, its numerator the number of those pairs in
\* which the project's plan for the gateway is non-empty and the module's
\* actual is on or before that plan; the numerator is at most the denominator
\* and the rate is 0 when the denominator is 0.
C13_AdherenceCountsOnTimePairs ==
    ds_pc = "done" =>
        /\ ds_rate.total_released_gateways = Cardinality(ClaimReleasedPairs(ds_projects))
        /\ ds_rate.on_track_gateways = Cardinality(ClaimOnTrackPairs(ds_projects))
        /\ ds_rate.on_track_gateways <= ds_rate.total_released_gateways
        /\ ds_rate.total_released_gateways = 0 => ds_rate.adherence_rate.num = 0

\* ------------------------------------------------------------------------
\* C14
\* ------------------------------------------------------------------------

\* The positions of the modules and sub-modules of a list: <<i, mi, 0>> is
\* module mi of project i and <<i, mi, si>> its sub-module si.
ClaimNodePositions(projs) ==
    {t \in (1..Len(projs)) \X (1..(MaxNodes + MaxEvents)) \X (0..(MaxNodes + MaxEvents)) :
        /\ t[2] <= Len(projs[t[1]].modules)
        /\ t[3] <= Len(SubsOf(projs[t[1]].modules[t[2]]))}

ClaimNodeId(projs, t) ==
    IF t[3] = 0 THEN projs[t[1]].modules[t[2]].id
    ELSE SubsOf(projs[t[1]].modules[t[2]])[t[3]].id

\* The positions of the deliverables of a list.
ClaimDeliverablePositions(projs) ==
    {t \in (1..Len(projs)) \X (1..Len(MasterChecklist)) :
        /\ "deliverables" \in DOMAIN projs[t[1]]
        /\ t[2] <= Len(projs[t[1]].deliverables)}

\* C14: in the working set, the list `projects` of the script run, no two
\* projects have the same id, no two modules or sub-modules have the same id
\* and no two deliverables have the same id, after every sequence of project
\* creations, module additions, deliverable populations and bulk uploads, at
\* whatever clock times.
C14_IdsUnique ==
    /\ \A i, j \in 1..Len(projects) : projects[i].id = projects[j].id => i = j
    /\ \A t, u \in ClaimNodePositions(projects) :
          ClaimNodeId(projects, t) = ClaimNodeId(projects, u) => t = u
    /\ \A t, u \in ClaimDeliverablePositions(projects) :
          projects[t[1]].deliverables[t[2]].id = projects[u[1]].deliverables[u[2]].id => t = u

\* ------------------------------------------------------------------------
\* C15
\* ------------------------------------------------------------------------

\* The entity carries the five gateway records D0..D4 and no other.
ClaimFiveGateways(e) == DOMAIN e.gateways = {"D0", "D1", "D2", "D3", "D4"}

\* C15: every project, module and sub-module of the working list carries
\* exactly the five gateway records D0..D4, however it was created (create
\* dialog, add-module, bulk upload) and after every rollup, save and load.
C15_FiveGatewaysEverywhere ==
    /\ \A pr \in ClaimProjectsIn(projects) : ClaimFiveGateways(pr)
    /\ \A m \in ClaimNodesIn(projects) : ClaimFiveGateways(m)

\* ------------------------------------------------------------------------
\* C16
\* ------------------------------------------------------------------------

\* The actuals of the entities of a list at gateway g that denote dates.
ClaimValidActuals(ents, g) == {v \in ClaimActuals(ents, g) : ClaimDenotesDate(v)}

\* held, the actual of a parent, is taken from the actuals of its children
\* ents that denote dates: one of them when there is one, and no actual when
\* there is none.
ClaimFromValid(held, ents, g) ==
    IF ClaimValidActuals(ents, g) = {} THEN held \in {NoneV, EmptyStr}
    ELSE held \in ClaimValidActuals(ents, g)

\* C16: after calculate_rollup returns, the actual of every module that has
\* sub-modules, and of every project, is for every gateway taken from the
\* actuals of its children that are parseable dates: a missing or unparseable
\* actual is never the derived actual and never keeps a valid date from being
\* chosen.
C16_UnparseableActualsExcluded ==
    rl_calls > 0 =>
        \A i \in 1..Len(rl_projects) : \A g \in GWSet :
            /\ ClaimFromValid(GwGet(rl_projects[i], g, "a"), rl_projects[i].modules, g)
            /\ \A m \in ClaimModulesOf(rl_projects[i]) :
                  SubsOf(m) # <<>> => ClaimFromValid(GwGet(m, g, "a"), SubsOf(m), g)

\* ------------------------------------------------------------------------
\* C17
\* ------------------------------------------------------------------------

\* Scenario A: the project has the D0 plan 2024-01-01 and one module, without
\* sub-modules, whose D0 actual is 2024-01-05; the rollup has run and the D0
\* gateway of the project has been classified.
ClaimScenarioA ==
    /\ rl_calls > 0 /\ st_result # NotCalled
    /\ Len(rl_projects) = 1 /\ Len(rl_projects[1].modules) = 1
    /\ SubsOf(rl_projects[1].modules[1]) = <<>>
    /\ GwGet(rl_projects[1], "D0", "p") = <<"2","0","2","4","-","0","1","-","0","1">>
    /\ GwGet(rl_projects[1].modules[1], "D0", "a") = <<"2","0","2","4","-","0","1","-","0","5">>

\* The rollup has set the project's D0 actual to 2024-01-05, and plan and
\* actual, 4 days apart, are the ones classified.
ClaimScenarioARolledUp ==
    /\ GwGet(rl_projects[1], "D0", "a") = <<"2","0","2","4","-","0","1","-","0","5">>
    /\ st_plan = GwGet(rl_projects[1], "D0", "p")
    /\ st_actual = GwGet(rl_projects[1], "D0", "a")
    /\ OracleDays(OracleDateOf(st_plan), OracleDateOf(st_actual)) = 4

\* C17 as stated: in Scenario A the rollup sets the project's D0 actual to
\* 2024-01-05 and the classification of plan against actual (diff = 4 days)
\* is on-track (green).
C17_ScenarioAOnTrack ==
    ClaimScenarioA => ClaimScenarioARolledUp /\ st_result = "green"

\* C17, amended: in Scenario A the rollup sets the project's D0 actual to
\* 2024-01-05 and the classification of plan against actual (diff = 4 days)
\* is at-risk (yellow).
C17_ScenarioAAtRisk ==
    ClaimScenarioA => ClaimScenarioARolledUp /\ st_result = "yellow"

\* Scenario A has been rolled up and classified.
C17_Witness == ClaimScenarioA /\ st_result = "yellow"

\* ------------------------------------------------------------------------
\* C18
\* ------------------------------------------------------------------------

\* The rows of the checklist file flagged for the type: the cell of the
\* type's column says yes.  No file has no rows.
ClaimFlaggedRows(csv, type) ==
    IF csv = <<>> THEN <<>>
    ELSE LET Yes(r) == IF type = "Major" THEN r.Major \in {"YES", "Yes"}
                       ELSE r.Minor \in {"YES", "Yes"}
         IN  SelectSeq(csv[1], Yes)

\* C18: populate_deliverables returns, for the type Major (Minor), one
\* deliverable for every checklist row flagged for the type and no other, in
\* checklist order, with the row's gateway and name, the status Pending and
\* empty evidence and remarks; for Carryover and every other type it returns
\* the empty list, whatever the checklist holds.
C18_DeliverablesFollowChecklist ==
    pd_called =>
        IF pd_type \in {"Major", "Minor"}
        THEN /\ Len(pd_result) = Len(ClaimFlaggedRows(pd_csv, pd_type))
             /\ \A i \in 1..Len(pd_result) :
                   /\ pd_result[i].gateway_stage = ClaimFlaggedRows(pd_csv, pd_type)[i].Gateway
                   /\ pd_result[i].deliverable_name
                         = ClaimFlaggedRows(pd_csv, pd_type)[i].Delivarables
                   /\ pd_result[i].status = "Pending"
                   /\ pd_result[i].evidence_link = ""
                   /\ pd_result[i].remarks = ""
        ELSE pd_result = <<>>

\* The call has returned for a Minor project and a checklist whose first row
\* is flagged for Major only and whose second row is flagged for Minor.
C18_Witness ==
    /\ pd_called /\ pd_type = "Minor" /\ pd_csv # <<>> /\ Len(pd_csv[1]) = 2
    /\ pd_csv[1][1].Major = "YES" /\ pd_csv[1][1].Minor = "NO"
    /\ pd_csv[1][2].Minor = "YES"
    /\ Len(pd_result) = 1
    /\ pd_result[1].deliverable_name = pd_csv[1][2].Delivarables

\* ------------------------------------------------------------------------
\* C19
\* ------------------------------------------------------------------------

\* A step of the Deliverables Tracker that stores an edit of a deliverable:
\* the view has no other handler that makes an edit.
ClaimDeliverableEdit == view = "Deliverables Tracker" /\ events' = events + 1

\* What is fixed of a deliverable row: its id, name, gateway stage and project.
ClaimFixedPart(r) == <<r.id, r.deliverable_name, r.gateway_stage, r.project_id>>

\* The deliverables as the next load finds them: the rows of the file, and the
\* same deliverables in the list load_data returns.
ClaimLoadedDeliverables(file) ==
    UNION {{<<pr.id, d>> : d \in ClaimDeliverablesOf(pr)} :
              pr \in ClaimProjectsIn(load_data(file))}

\* C19: a deliverable edit in the Deliverables Tracker, with its save and the
\* load that follows, keeps for every deliverable id the name, the gateway
\* stage and the owning project; it changes the status, evidence link and
\* remarks of at most the edited deliverable and leaves every other
\* deliverable as it was, in the file and in the list the next load returns.
C19_EditKeepsDeliverableShape ==
    [][ClaimDeliverableEdit =>
          /\ {ClaimFixedPart(r) : r \in db'.project_deliverables}
                = {ClaimFixedPart(r) : r \in db.project_deliverables}
          /\ Cardinality(db'.project_deliverables) = Cardinality(db.project_deliverables)
          /\ Cardinality(db'.project_deliverables \ db.project_deliverables) <= 1
          /\ Cardinality(ClaimLoadedDeliverables(db') \ ClaimLoadedDeliverables(db)) <= 1
          /\ {<<t[1], t[2].id, t[2].deliverable_name, t[2].gateway_stage>> :
                 t \in ClaimLoadedDeliverables(db')}
                = {<<r.project_id, r.id, r.deliverable_name, r.gateway_stage>> :
                      r \in db.project_deliverables}]_vars

\* An edit has been saved: the file holds a project with a deliverable that is
\* Completed and another that is still Pending.
C19_Witness ==
    /\ view = "Deliverables Tracker" /\ sv.called /\ sv.result = "True"
    /\ \E r, q \in db.project_deliverables :
          /\ r.project_id = q.project_id /\ r.id # q.id
          /\ r.status = "Completed" /\ q.status = "Pending"
          /\ \E b \in sv.before.project_deliverables : b.id = r.id /\ b.status = "Pending"

\* ------------------------------------------------------------------------
\* C20
\* ------------------------------------------------------------------------

\* The step of the upload dialog that merges a file and saves.
ClaimUploadStep ==
    \E f \in 1..Len(CsvFiles), dt \in ClockSteps, fault \in FaultPoints :
        SubmitUploadCsv(f, dt, fault)

\* The actuals of a hierarchy: for every project, module and sub-module, by
\* position, and every gateway, the actual it holds, '' when it holds none.
ClaimActualsAt(L) ==
    [t \in {<<i, 0, 0>> : i \in 1..Len(L)} \cup ClaimNodePositions(L), g \in GWSet |->
        LET a == IF t[2] = 0 THEN GwGet(L[t[1]], g, "a")
                 ELSE IF t[3] = 0 THEN GwGet(L[t[1]].modules[t[2]], g, "a")
                 ELSE GwGet(SubsOf(L[t[1]].modules[t[2]])[t[3]], g, "a")
        IN  IF a = NoneV THEN EmptyStr ELSE a]

\* Every actual of the hierarchy L has been propagated: an entity with a child
\* that holds an actual at a gateway holds one there too, and the rollup finds
\* no actual to change.
ClaimPropagated(L) ==
    /\ \A i \in 1..Len(L) : \A g \in GWSet :
          /\ ClaimActuals(L[i].modules, g) # {} => GwGet(L[i], g, "a") \notin {NoneV, EmptyStr}
          /\ \A m \in ClaimModulesOf(L[i]) :
                ClaimActuals(SubsOf(m), g) # {} => GwGet(m, g, "a") \notin {NoneV, EmptyStr}
    /\ ClaimActualsAt(calculate_rollup(L)) = ClaimActualsAt(L)

\* C20: the step of the upload dialog rolls the merged hierarchy up before it
\* writes and before a view reads: the list that the save writes, the list
\* the script holds after the step and the hierarchy in the file after the
\* step all have every module and sub-module actual propagated to the
\* ancestors.
C20_UploadRollsUpBeforeWrite ==
    [][ClaimUploadStep =>
          /\ sv'.called
          /\ ClaimPropagated(sv'.arg)
          /\ ClaimPropagated(projects')
          /\ ClaimPropagated(Hydrate(db'))]_vars

\* An upload has been saved: the file holds a sub-module with the D0 actual
\* 2024-01-20, and its module and its project hold an actual at D0.
C20_Witness ==
    /\ sv.called /\ sv.result = "True" /\ dialog = "none" /\ Len(projects) = 1
    /\ \E s \in db.modules :
          /\ s.parent_module_id # NullId
          /\ \E x, y, z \in db.gateways :
                /\ x.entity_type = "module" /\ x.entity_id = s.id
                /\ x.gateway = "D0" /\ x.actual_date = DateB
                /\ y.entity_type = "module" /\ y.entity_id = s.parent_module_id
                /\ y.gateway = "D0" /\ Truthy(y.actual_date)
                /\ z.entity_type = "project" /\ z.entity_id = s.project_id
                /\ z.gateway = "D0" /\ Truthy(z.actual_date)
                /\ \A b \in sv.before.gateways : b.entity_id # s.id

\* ------------------------------------------------------------------------
\* C21
\* ------------------------------------------------------------------------

\* Both sessions loaded the snapshot that no save had replaced yet, and both
\* have saved.
ClaimBothSaved ==
    /\ Len(cs_order) = 2
    /\ \A s \in Sessions : cs_loaded[s] = [at |-> 0, ok |-> TRUE]

\* The edit e of session s shows in the list L.
ClaimEditIn(L, e, s) ==
    IF e = "create" THEN \E pr \in ClaimProjectsIn(L) : pr.name = "P" \o s
    ELSE IF e = "status"
    THEN \E pr \in ClaimProjectsIn(L) : \E j \in 1..Len(pr.deliverables) :
            /\ j = (IF s = "A" THEN 1 ELSE Len(pr.deliverables))
            /\ pr.deliverables[j].status = "Completed"
    ELSE IF e = "add_module"
    THEN \E n \in ClaimNodesIn(L) : n.id = SessionClock(s) * 1000
    ELSE \A pr \in ClaimProjectsIn(L) : pr.name # "P1"

\* C21: when two sessions have loaded the same persisted snapshot, each has
\* made its edit and each has called save_data, both calls returned True, the
\* file holds the list of the session that saved last and nothing else, and
\* the edit of the session that saved first is not in it (unless the second
\* session made the same edit, the deletion of the project).
C21_LastWriterWins ==
    ClaimBothSaved =>
        /\ \A s \in Sessions : cs_results[s] = "True"
        /\ ClaimNoLeftover(db, cs_lists[cs_order[2]])
        /\ ClaimTree(load_data(db)) = ClaimTree(cs_lists[cs_order[2]])
        /\ cs_edits[cs_order[1]] # cs_edits[cs_order[2]]
              => ~ClaimEditIn(load_data(db), cs_edits[cs_order[1]], cs_order[1])
        /\ ClaimEditIn(load_data(db), cs_edits[cs_order[2]], cs_order[2])

\* Session A completed a deliverable and saved, session B, which had loaded
\* before that save, added a module and saved: the deliverable is pending
\* again.
C21_Witness ==
    /\ ClaimBothSaved
    /\ cs_order = <<"A", "B">>
    /\ cs_edits["A"] = "status" /\ cs_edits["B"] = "add_module"
    /\ \E r \in db.project_deliverables : TRUE
    /\ \A r \in db.project_deliverables : r.status = "Pending"
    /\ \E r \in db.modules : r.id = SessionClock("B") * 1000

\* ------------------------------------------------------------------------
\* C22
\* ------------------------------------------------------------------------

\* The actuals in the list L of the entities that are not leaves in the list
\* B: every project, and every module with sub-modules.
ClaimNonLeafActuals(L, B) ==
    {<<i, 0, g, ClaimCell(L[i], g, "a")>> : i \in 1..Len(B), g \in GWSet}
      \cup UNION {{<<i, mi, g, ClaimCell(L[i].modules[mi], g, "a")>> :
                      mi \in {n \in 1..Len(B[i].modules) : SubsOf(B[i].modules[n]) # <<>>},
                      g \in GWSet} : i \in 1..Len(B)}

\* C22: calculate_rollup is the only writer of the actuals of projects and of
\* modules with sub-modules: on the list a script run has loaded, no widget
\* of the Detailed Project View that the run reaches (a project without one
\* of the five gateways stops it) hands save_data a list in which such an
\* actual differs, and the merge of an uploaded file returns none either.
C22_RollupIsSingleWriter ==
    \A L \in {load_data(db)} :
       /\ \A ws \in {DetailedWidgets(L, AllTypes(L), NoButton)} :
          \A j \in {n \in 1..Len(ws) : \A k \in 1..ws[n].i : GWSet \subseteq DOMAIN L[k].gateways} :
             \A e \in {WidgetEdit(L, ws[j], 0)} :
                e.kind = "save" => ClaimNonLeafActuals(e.list, L) = ClaimNonLeafActuals(L, L)
       /\ \A f \in 1..Len(CsvFiles) :
             \A merged \in {process_csv_upload(CsvFiles[f], L, (clock + 1) * 1000)} :
                ClaimNonLeafActuals(merged, L) = ClaimNonLeafActuals(L, L)

\* ------------------------------------------------------------------------
\* C23
\* ------------------------------------------------------------------------

\* What calculate_rollup must leave alone in a module: all of a module without
\* sub-modules; id, name, plans, change notes and the sub-module records of a
\* module with sub-modules.  A gateway without a record, or a record without
\* the key, reads as empty.
ClaimModuleFrame(m) ==
    IF SubsOf(m) = <<>> THEN <<m>>
    ELSE <<m.id, m.name, SubsOf(m),
           [g \in GWSet |-> <<ClaimCell(m, g, "p"), ClaimCell(m, g, "ecn")>>]>>

\* ... and in a project.
ClaimProjectFrame(pr) ==
    <<pr.id, pr.name, pr.type, pr.deliverables,
      [g \in GWSet |-> ClaimCell(pr, g, "p")],
      [mi \in 1..Len(pr.modules) |-> ClaimModuleFrame(pr.modules[mi])]>>

\* C23: a calculate_rollup call leaves unchanged the list order, every id,
\* name, type, plan, change note and sub-module record, and every module that
\* has no sub-modules; only actuals of projects and of modules with
\* sub-modules differ after it.
C23_RollupFrame ==
    rl_calls > 0 =>
        [i \in 1..Len(rl_projects) |-> ClaimProjectFrame(rl_projects[i])]
          = [i \in 1..Len(rl_prev) |-> ClaimProjectFrame(rl_prev[i])]

\* A call changed the list of a project that has a module with sub-modules,
\* next to a module without sub-modules that holds an actual.
C23_Witness ==
    /\ rl_calls > 0
    /\ rl_projects # rl_prev
    /\ \E m \in ClaimModulesOf(rl_prev[1]) : SubsOf(m) # <<>>
    /\ \E m \in ClaimModulesOf(rl_prev[1]) : \E g \in GWSet :
          SubsOf(m) = <<>> /\ Truthy(ClaimCell(m, g, "a"))

\* ------------------------------------------------------------------------
\* C24
\* ------------------------------------------------------------------------

\* The elements of the list B that follow an element of the same name are the
\* same in the list L.
ClaimLaterNamesakesKept(L, B) ==
    \A i \in 1..Len(B) :
        (\E j \in 1..(i - 1) : B[j].name = B[i].name) => L[i] = B[i]

\* C24: a merge leaves alone every project, module and sub-module that follows
\* one of the same name in its list: the rows are applied to the first entity
\* of a name.
C24_RowGoesToFirstOfName ==
    up_calls > 0 =>
        /\ ClaimLaterNamesakesKept(up_out, up_prev)
        /\ \A i \in 1..Len(up_prev) :
              /\ ClaimLaterNamesakesKept(up_out[i].modules, up_prev[i].modules)
              /\ \A mi \in 1..Len(up_prev[i].modules) :
                    ClaimLaterNamesakesKept(SubsOf(up_out[i].modules[mi]),
                                            SubsOf(up_prev[i].modules[mi]))

\* ------------------------------------------------------------------------
\* C25
\* ------------------------------------------------------------------------

\* C25: when process_csv_upload returns a message other than "Success", the
\* list it returns is the list it was given: no row has created an entity or
\* changed a cell.
C25_FailedUploadChangesNothing ==
    (up_calls > 0 /\ up_msg # "Success") => up_out = up_prev

\* ------------------------------------------------------------------------
\* C26
\* ------------------------------------------------------------------------

\* C26: when one session alone has loaded, edited and saved, and its edit was
\* not the deletion of the project, the project that was persisted before is
\* still persisted, also when the load of the session failed.
C26_PersistedProjectsStay ==
    \A s \in Sessions :
        (cs_order = <<s>> /\ cs_edits[s] # "delete_project") =>
            \E r \in db.projects : r.id = ClockStart + 1 /\ r.name = "P1"

\* ------------------------------------------------------------------------
\* C27
\* ------------------------------------------------------------------------

\* C27: the rows of a file merged a second time into the list the first merge
\* returned create nothing and change nothing.
C27_MergeIdempotent ==
    (up_calls > 0 /\ up_msg = "Success") =>
        process_csv_upload(up_file.rows, up_out, (clock + 1) * 1000) = up_out

\* ------------------------------------------------------------------------
\* C28
\* ------------------------------------------------------------------------

\* A step of the create dialog whose save_data call returned True: the form
\* was submitted, and the new project has the second of the step as its id.
ClaimCreateSaved == dialog = "create" /\ events' = events + 1 /\ sv'.result = "True"

\* C28: after a project has been created in the dialog and saved, the list the
\* next script run loads holds it, and its type is one of the selected types,
\* so that it is in filtered_projects of that run.
C28_CreatedProjectIsShown ==
    [][ClaimCreateSaved =>
          \E pr \in ClaimProjectsIn(load_data(db')) :
             pr.id = clock' /\ pr.type \in selected_types']_vars

\* ------------------------------------------------------------------------
\* C29
\* ------------------------------------------------------------------------

\* The gateways at which the projects of the list hold a plan that is not
\* empty, by project id.
ClaimPlanned(L) ==
    UNION {{<<pr.id, g>> : g \in {x \in GWSet : Truthy(ClaimCell(pr, x, "p"))}} :
              pr \in ClaimProjectsIn(L)}

\* The plans of B that the list L, as far as it still holds the project, has
\* kept.
ClaimPlansKept(L, B) ==
    \A t \in ClaimPlanned(B) :
        (\E pr \in ClaimProjectsIn(L) : pr.id = t[1]) => t \in ClaimPlanned(L)

\* What the user can leave in a plan widget: nothing (the widget cleared), or
\* a date.
ClaimPlanInputs == {NoneV, DateA, DateB}

\* C29: no step of the application (script run, dialog, button, upload, edit,
\* with its rollups, save and load) empties a project plan that was not empty,
\* in the file and in the list of the session (unless the list holds what a
\* failed save did not persist), as long as the project exists; and whatever
\* the user leaves in a plan widget of the Detailed Project View, the list
\* handed to save_data has kept every plan.
C29_PlanNeverCleared ==
    [][/\ ~sv.raised => ClaimPlansKept(projects', projects)
       /\ db' # db => ClaimPlansKept(Hydrate(db'), Hydrate(db))
       /\ view = "Detailed Project View" =>
             \A i \in {n \in 1..Len(projects) : GWSet \subseteq DOMAIN projects[n].gateways} :
                \A g \in GWSet, new_pd \in ClaimPlanInputs :
                   \A e \in {StorePlan(projects, Widget("project_plan", i, 0, 0, g, FALSE),
                                       Get(projects[i].gateways[g], "p"), new_pd)} :
                      e.kind = "save" => ClaimPlansKept(e.list, projects)]_vars

\* A project created in the dialog, with its D0 plan, has been through an
\* upload that merged a module into it and stored a D0 plan, and is persisted
\* with the plan.
C29_Witness ==
    /\ sv.called /\ sv.result = "True" /\ events = 2
    /\ \E pr \in ClaimProjectsIn(load_data(db)) :
          /\ "deliverables" \in DOMAIN pr /\ pr.deliverables # <<>>
          /\ \E m \in ClaimModulesOf(pr) : m.name = "M1"
          /\ <<pr.id, "D0">> \in ClaimPlanned(<<pr>>)

\* ------------------------------------------------------------------------
\* C30
\* ------------------------------------------------------------------------

\* The "Sub" button is pressed on a module without sub-modules.
ClaimFirstSubAdded ==
    /\ PressModuleButton("add_sub", 1, 0, 1)
    /\ SubsOf(projects[1].modules[1]) = <<>>

\* The delete button of the only sub-module of a module is pressed.
ClaimLastSubDeleted ==
    /\ PressModuleButton("delete_sub", 1, 1, 1)
    /\ Len(SubsOf(projects[1].modules[1])) = 1

\* C30: the step that appends a first sub-module to a module without
\* sub-modules persists the module with one sub-module, both with an empty
\* actual at all five gateways; the step that deletes the only sub-module of a
\* module persists the module without sub-modules and with the actuals that
\* the rollup had derived before the step.
C30_LeafActualOnGainAndLoss ==
    [][/\ ClaimFirstSubAdded =>
            \A m \in {Hydrate(db')[1].modules[1]} :
               /\ Len(SubsOf(m)) = 1
               /\ \A g \in GWSet : /\ ClaimCell(m, g, "a") = EmptyStr
                                   /\ ClaimCell(SubsOf(m)[1], g, "a") = EmptyStr
       /\ ClaimLastSubDeleted =>
            \A m \in {Hydrate(db')[1].modules[1]} :
               /\ SubsOf(m) = <<>>
               /\ \A g \in GWSet :
                     ClaimCell(m, g, "a") = ClaimCell(load_data(db)[1].modules[1], g, "a")]_vars

\* The only sub-module of the module, which held the D0 actual 2024-01-20,
\* has been deleted: the module is persisted without sub-modules and with
\* that actual.
C30_Witness ==
    /\ sv.called /\ sv.result = "True"
    /\ \E r \in sv.before.modules : r.parent_module_id = 10
    /\ \A r \in db.modules : r.parent_module_id = NullId
    /\ \E r \in db.gateways :
          /\ r.entity_type = "module" /\ r.entity_id = 10
          /\ r.gateway = "D0" /\ r.actual_date = DateB

====
